---------------------------- MODULE Spec2Model ----------------------------
(***************************************************************************)
(* Clan Manager: the power calculator of app.py and app_2.py, the numeric  *)
(* magnitude parser of app_2.py and the multi-clan member stats store of   *)
(* app_2.py.                                                               *)
(*                                                                         *)
(* Every handler is one Streamlit script run: the widget that triggered    *)
(* the run is the action, its values are the action's parameters.          *)
(*                                                                         *)
(* Arithmetic of the calculator is exact decimal fixed point (the source   *)
(* uses binary floating point whose relative error, 2^-52, is far below    *)
(* the one decimal the page shows):                                        *)
(*   calculate_power              in tenths           (1 unit = 0.1)       *)
(*   calculate_total_power_full   in thousandths      (1 unit = 0.001)     *)
(*   calculate_total_power_lite   in ten-thousandths  (1 unit = 0.0001)    *)
(* The parser's arithmetic is IEEE-754 binary64, modelled bit by bit,      *)
(* because there the rounding decides the integer that is returned.        *)
(***************************************************************************)
EXTENDS Integers, Sequences, FiniteSets, TLC

VARIABLES
    \* ---- power calculator (st.session_state of app.py / app_2.py)
    clan1_members,      \* roster 1: sequence of member dicts
    clan2_members,      \* roster 2
    clan1_mode,         \* "ATK" | "DEF"
    calc_mode,          \* "Full" | "Lite"
    clan1_total_power,  \* Lite mode: declared total of roster 1
    clan2_total_power,  \* Lite mode: declared total of roster 2
    \* ---- parse_stat_input applied to one input
    value_input,        \* the argument
    parse_result,       \* NotCalled, or what the call gave
    \* ---- format_stat applied to one value
    format_value,       \* the argument
    format_result,      \* NotFormatted, or the text the call gave
    \* ---- the power formulas applied to one roster
    power_args,         \* the arguments: members, mode, clan_total_power
    power_result,       \* NotComputed, or what the formulas of both files gave
    \* ---- one call of load_members, save_members or save_clans
    backing_file,       \* the JSON file the call is on, as it is on disk
    file_call,          \* the call: its argument, how far it is, its outcome
    \* ---- member stats store (app_2.py)
    clans,              \* clans_data.json: clan key -> clan dict
    clan_order,         \* the key order of that dict (insertion order)
    now,                \* the UTC clock get_utc_timestamp() reads
    selected_clan,      \* key of the clan chosen in "selected_clan_dropdown"
    current_clan_pin,   \* st.session_state.current_clan_pin
    authenticated_clans,\* st.session_state.authenticated_clans
    import_data,        \* st.session_state.import_data (optional key)
    show_import_options,\* st.session_state.show_import_options
    delete_pending,     \* st.session_state.delete_pending (optional key)
    show_delete_dialog, \* st.session_state.show_delete_dialog
    extracted_data,     \* st.session_state.extracted_data (optional key)
    extracted_name,     \* st.session_state.extracted_name (optional key)
    show_confirmation,  \* st.session_state.show_confirmation
    report              \* what the last run reported (st.error / st.success / exception)

calcVars == << clan1_members, clan2_members, clan1_mode, calc_mode,
               clan1_total_power, clan2_total_power >>

parseVars == << value_input, parse_result >>

formatVars == << format_value, format_result >>

powerVars == << power_args, power_result >>

ioVars == << backing_file, file_call >>

\* the functions studied on their own, outside the pages
pureVars == << parseVars, formatVars, powerVars, ioVars >>

fileVars == << clans, clan_order >>

sessionVars == << selected_clan, current_clan_pin, authenticated_clans,
                  import_data, show_import_options, delete_pending,
                  show_delete_dialog, extracted_data, extracted_name,
                  show_confirmation >>

clanVars == << selected_clan, current_clan_pin, authenticated_clans >>

importVars == << import_data, show_import_options >>

deleteVars == << delete_pending, show_delete_dialog >>

extractVars == << extracted_data, extracted_name, show_confirmation >>

storeVars == << clans, clan_order, now, selected_clan, current_clan_pin,
                authenticated_clans, import_data, show_import_options,
                delete_pending, show_delete_dialog, extracted_data,
                extracted_name, show_confirmation, report >>

vars == << calcVars, parseVars, formatVars, powerVars, ioVars, storeVars >>

-----------------------------------------------------------------------------
(* Bounds and input sets of the calculator *)

\* members held by the two rosters together
MaxMembers == 3

Races == {"Dog", "Cat", "Frog"}
Modes == {"ATK", "DEF"}
\* number_input "Power" (min_value=1, default 100)
Powers == {3, 400}
\* number_input "Level" (min_value=1, default 1)
Levels == {1}
\* number_input "Total Clan Power" (min_value=0)
TotalPowers == {0, 1000}

-----------------------------------------------------------------------------
(* app.py: formulas *)

\* BIAS_VALUE = 0.84, in hundredths
BIAS_VALUE == 84

\* a faulty variant of calculate_power: no power for a race it does not know
Mutant_C20_calculate_power(race, base_power, mode) ==
    IF race = "Frog" THEN base_power * 15
    ELSE IF race = "Cat"
         THEN (IF mode = "ATK" THEN base_power * 52 ELSE base_power * 25)
    ELSE IF race = "Dog"
         THEN (IF mode = "ATK" THEN base_power * 25 ELSE base_power * 52)
    ELSE 0

\* result in tenths
app_calculate_power(race, base_power, mode) ==
    IF race = "Frog" THEN base_power * 15
    ELSE IF race = "Cat"
         THEN (IF mode = "ATK" THEN base_power * 52 ELSE base_power * 25)
    ELSE IF race = "Dog"
         THEN (IF mode = "ATK" THEN base_power * 25 ELSE base_power * 52)
    ELSE base_power * 10

\* the loop "for member in members: total += ..." from index i on; tenths
RECURSIVE app_full_loop(_, _, _, _)
app_full_loop(members, mode, i, total) ==
    IF i > Len(members) THEN total
    ELSE app_full_loop(members, mode, i + 1,
            total + app_calculate_power(members[i].race, members[i].power, mode))

\* result in thousandths
app_calculate_total_power_full(members, mode) ==
    app_full_loop(members, mode, 1, 0) * BIAS_VALUE

RECURSIVE app_major_loop(_, _, _, _, _)
app_major_loop(members, mode, major_race, i, total) ==
    IF i > Len(members) THEN total
    ELSE app_major_loop(members, mode, major_race, i + 1,
            IF members[i].race = major_race
            THEN total + app_calculate_power(members[i].race, members[i].power, mode)
            ELSE total)

\* result in tenths
app_calculate_major_race_power(members, mode) ==
    LET major_race == IF mode = "DEF" THEN "Dog" ELSE "Cat"
    IN  app_major_loop(members, mode, major_race, 1, 0)

\* result in ten-thousandths.  The source subtracts the major race's
\* EFFECTIVE power (major_power) from the declared total.
app_calculate_total_power_lite(members, mode, clan_total_power) ==
    LET major_power     == app_calculate_major_race_power(members, mode)   \* tenths
        remaining_power == (clan_total_power * 10 - major_power) * 18      \* hundredths
    IN  (major_power * 10 + remaining_power) * BIAS_VALUE

-----------------------------------------------------------------------------
(* app_2.py: formulas *)

\* a faulty variant of app_2.py's calculate_power: the table of app.py
Mutant_C1_calculate_power(race, base_power, mode) ==
    app_calculate_power(race, base_power, mode)

\* result in tenths
app_2_calculate_power(race, base_power, mode) ==
    IF race = "Frog" THEN base_power * 25
    ELSE IF race = "Cat"
         THEN (IF mode = "ATK" THEN base_power * 50 ELSE base_power * 25)
    ELSE IF race = "Dog"
         THEN (IF mode = "ATK" THEN base_power * 25 ELSE base_power * 50)
    ELSE base_power * 10

RECURSIVE app_2_full_loop(_, _, _, _)
app_2_full_loop(members, mode, i, total) ==
    IF i > Len(members) THEN total
    ELSE app_2_full_loop(members, mode, i + 1,
            total + app_2_calculate_power(members[i].race, members[i].power, mode))

\* a faulty variant of app_2.py's calculate_total_power_full: the loop
\* misses the first member
Mutant_C3_calculate_total_power_full(members, mode) ==
    app_2_full_loop(members, mode, 2, 0) * BIAS_VALUE

\* result in thousandths
app_2_calculate_total_power_full(members, mode) ==
    app_2_full_loop(members, mode, 1, 0) * BIAS_VALUE

\* acc = <<total (tenths), total_power (raw)>>
RECURSIVE app_2_major_loop(_, _, _, _, _)
app_2_major_loop(members, mode, major_race, i, acc) ==
    IF i > Len(members) THEN acc
    ELSE app_2_major_loop(members, mode, major_race, i + 1,
            IF members[i].race = major_race
            THEN << acc[1] + app_2_calculate_power(members[i].race, members[i].power, mode),
                    acc[2] + members[i].power >>
            ELSE acc)

\* <<total (tenths), total_power (raw)>>
app_2_calculate_major_race_power(members, mode) ==
    LET major_race == IF mode = "DEF" THEN "Dog" ELSE "Cat"
    IN  app_2_major_loop(members, mode, major_race, 1, << 0, 0 >>)

\* result in ten-thousandths
app_2_calculate_total_power_lite(members, mode, clan_total_power) ==
    LET r               == app_2_calculate_major_race_power(members, mode)
        major_power     == r[1]                                            \* tenths
        major_power_raw == r[2]
        remaining_power == (clan_total_power - major_power_raw) * 18       \* tenths
    IN  (major_power + remaining_power) * BIAS_VALUE * 10

-----------------------------------------------------------------------------
(* The power formulas as pure functions: one call of each on one roster *)

NotComputed == [computed |-> FALSE]

\* what the formulas of one file give on the arguments
app_formulas(args) ==
    [power |-> [i \in 1..Len(args.members) |->
                    app_calculate_power(args.members[i].race, args.members[i].power,
                                        args.mode)],
     full  |-> app_calculate_total_power_full(args.members, args.mode),
     lite  |-> app_calculate_total_power_lite(args.members, args.mode,
                                              args.clan_total_power)]

app_2_formulas(args) ==
    [power |-> [i \in 1..Len(args.members) |->
                    app_2_calculate_power(args.members[i].race, args.members[i].power,
                                          args.mode)],
     full  |-> app_2_calculate_total_power_full(args.members, args.mode),
     lite  |-> app_2_calculate_total_power_lite(args.members, args.mode,
                                                args.clan_total_power)]

PowerCall ==
    /\ power_result = NotComputed
    /\ power_result' = [computed |-> TRUE,
                        app      |-> app_formulas(power_args),
                        app_2    |-> app_2_formulas(power_args)]
    /\ UNCHANGED << power_args, calcVars, parseVars, formatVars, ioVars, storeVars >>

-----------------------------------------------------------------------------
(* Power calculator: the page (render_clan_calculator of app_2.py, the     *)
(* logged-in branch of app.py; the two pages are the same code).           *)

\* a faulty variant: roster 2 follows the mode of roster 1
Mutant_C22_clan2_mode == clan1_mode

\* line 253 (app.py: line 113)
clan2_mode == IF clan1_mode = "ATK" THEN "DEF" ELSE "ATK"

HasLevel(member) == "level" \in DOMAIN member

\* The Full mode table reads member['level'] of every row: a row without
\* the key ends the run with a KeyError, and nothing below it is rendered.
FullTableRenders(members) ==
    \A i \in 1..Len(members) : HasLevel(members[i])

\* the widgets of row idx of a table are rendered
RowRendered(members, idx) ==
    /\ idx \in 1..Len(members)
    /\ calc_mode = "Full" => \A i \in 1..idx : HasLevel(members[i])

\* the panel of roster 2 is rendered: the table of roster 1 did not raise
Panel2Rendered == calc_mode = "Full" => FullTableRenders(clan1_members)

RemoveAt(members, idx) ==
    [i \in 1..(Len(members) - 1) |-> IF i < idx THEN members[i] ELSE members[i + 1]]

InitCalc ==
    /\ clan1_members = << >>
    /\ clan2_members = << >>
    /\ clan1_mode = "ATK"
    /\ calc_mode = "Full"
    /\ clan1_total_power = 0
    /\ clan2_total_power = 0

\* st.toggle("Lite Mode")
ToggleCalcMode ==
    /\ calc_mode' = IF calc_mode = "Full" THEN "Lite" ELSE "Full"
    /\ UNCHANGED << pureVars, storeVars, clan1_members, clan2_members, clan1_mode,
                    clan1_total_power, clan2_total_power >>

\* st.toggle("Switch ATK/DEF")
ToggleAtkDef ==
    /\ clan1_mode' = IF clan1_mode = "ATK" THEN "DEF" ELSE "ATK"
    /\ UNCHANGED << pureVars, storeVars, clan1_members, clan2_members, calc_mode,
                    clan1_total_power, clan2_total_power >>

\* number_input "Total Clan Power" of roster 1 (Lite mode only), on_change
SetTotalPower1(value) ==
    /\ calc_mode = "Lite"
    /\ value # clan1_total_power
    /\ clan1_total_power' = value
    /\ UNCHANGED << pureVars, storeVars, clan1_members, clan2_members, clan1_mode, calc_mode,
                    clan2_total_power >>

SetTotalPower2(value) ==
    /\ calc_mode = "Lite"
    /\ value # clan2_total_power
    /\ clan2_total_power' = value
    /\ UNCHANGED << pureVars, storeVars, clan1_members, clan2_members, clan1_mode, calc_mode,
                    clan1_total_power >>

\* "Clear All" of roster 1 (shown when the roster is not empty)
Clear1 ==
    /\ Len(clan1_members) > 0
    /\ clan1_members' = << >>
    /\ UNCHANGED << pureVars, storeVars, clan2_members, clan1_mode, calc_mode,
                    clan1_total_power, clan2_total_power >>

Clear2 ==
    /\ Panel2Rendered
    /\ Len(clan2_members) > 0
    /\ clan2_members' = << >>
    /\ UNCHANGED << pureVars, storeVars, clan1_members, clan1_mode, calc_mode,
                    clan1_total_power, clan2_total_power >>

\* "Add" of roster 1, Full mode form
AddFull1(race, power, level) ==
    /\ calc_mode = "Full"
    /\ Len(clan1_members) + Len(clan2_members) < MaxMembers
    /\ clan1_members' = Append(clan1_members,
                               [race |-> race, power |-> power, level |-> level])
    /\ UNCHANGED << pureVars, storeVars, clan2_members, clan1_mode, calc_mode,
                    clan1_total_power, clan2_total_power >>

AddFull2(race, power, level) ==
    /\ calc_mode = "Full"
    /\ Panel2Rendered
    /\ Len(clan1_members) + Len(clan2_members) < MaxMembers
    /\ clan2_members' = Append(clan2_members,
                               [race |-> race, power |-> power, level |-> level])
    /\ UNCHANGED << pureVars, storeVars, clan1_members, clan1_mode, calc_mode,
                    clan1_total_power, clan2_total_power >>

\* "Add" of roster 1, Lite mode form: only the major race, no level
AddLite1(power) ==
    /\ calc_mode = "Lite"
    /\ Len(clan1_members) + Len(clan2_members) < MaxMembers
    /\ LET major_race == IF clan1_mode = "ATK" THEN "Cat" ELSE "Dog"
       IN  clan1_members' = Append(clan1_members,
                                   [race |-> major_race, power |-> power])
    /\ UNCHANGED << pureVars, storeVars, clan2_members, clan1_mode, calc_mode,
                    clan1_total_power, clan2_total_power >>

\* a faulty variant: the form of roster 2 takes the major race of roster 1
Mutant_C23_AddLite2(power) ==
    /\ calc_mode = "Lite"
    /\ Len(clan1_members) + Len(clan2_members) < MaxMembers
    /\ LET major_race == IF clan1_mode = "ATK" THEN "Cat" ELSE "Dog"
       IN  clan2_members' = Append(clan2_members,
                                   [race |-> major_race, power |-> power])
    /\ UNCHANGED << pureVars, storeVars, clan1_members, clan1_mode, calc_mode,
                    clan1_total_power, clan2_total_power >>

AddLite2(power) ==
    /\ calc_mode = "Lite"
    /\ Len(clan1_members) + Len(clan2_members) < MaxMembers
    /\ LET major_race == IF clan2_mode = "ATK" THEN "Cat" ELSE "Dog"
       IN  clan2_members' = Append(clan2_members,
                                   [race |-> major_race, power |-> power])
    /\ UNCHANGED << pureVars, storeVars, clan1_members, clan1_mode, calc_mode,
                    clan1_total_power, clan2_total_power >>

\* a faulty variant: pop() without the index
Mutant_C24_Delete1(idx) ==
    /\ RowRendered(clan1_members, idx)
    /\ clan1_members' = SubSeq(clan1_members, 1, Len(clan1_members) - 1)
    /\ UNCHANGED << pureVars, storeVars, clan2_members, clan1_mode, calc_mode,
                    clan1_total_power, clan2_total_power >>

\* the delete button of row idx (0-based idx - 1 in the source): pop(idx)
Delete1(idx) ==
    /\ RowRendered(clan1_members, idx)
    /\ clan1_members' = RemoveAt(clan1_members, idx)
    /\ UNCHANGED << pureVars, storeVars, clan2_members, clan1_mode, calc_mode,
                    clan1_total_power, clan2_total_power >>

Delete2(idx) ==
    /\ Panel2Rendered
    /\ RowRendered(clan2_members, idx)
    /\ clan2_members' = RemoveAt(clan2_members, idx)
    /\ UNCHANGED << pureVars, storeVars, clan1_members, clan1_mode, calc_mode,
                    clan1_total_power, clan2_total_power >>

\* a changed widget of row idx, Full mode table
EditFull1(idx, new_race, new_power, new_level) ==
    /\ calc_mode = "Full"
    /\ RowRendered(clan1_members, idx)
    /\ \/ new_race # clan1_members[idx].race
       \/ new_power # clan1_members[idx].power
       \/ new_level # clan1_members[idx].level
    /\ clan1_members' = [clan1_members EXCEPT ![idx] =
                            [race |-> new_race, power |-> new_power, level |-> new_level]]
    /\ UNCHANGED << pureVars, storeVars, clan2_members, clan1_mode, calc_mode,
                    clan1_total_power, clan2_total_power >>

EditFull2(idx, new_race, new_power, new_level) ==
    /\ calc_mode = "Full"
    /\ Panel2Rendered
    /\ RowRendered(clan2_members, idx)
    /\ \/ new_race # clan2_members[idx].race
       \/ new_power # clan2_members[idx].power
       \/ new_level # clan2_members[idx].level
    /\ clan2_members' = [clan2_members EXCEPT ![idx] =
                            [race |-> new_race, power |-> new_power, level |-> new_level]]
    /\ UNCHANGED << pureVars, storeVars, clan1_members, clan1_mode, calc_mode,
                    clan1_total_power, clan2_total_power >>

\* a changed power of row idx, Lite mode table: the row becomes a Lite
\* member of the roster's current major race
EditLite1(idx, new_power) ==
    /\ calc_mode = "Lite"
    /\ RowRendered(clan1_members, idx)
    /\ new_power # clan1_members[idx].power
    /\ LET major_race == IF clan1_mode = "ATK" THEN "Cat" ELSE "Dog"
       IN  clan1_members' = [clan1_members EXCEPT ![idx] =
                                [race |-> major_race, power |-> new_power]]
    /\ UNCHANGED << pureVars, storeVars, clan2_members, clan1_mode, calc_mode,
                    clan1_total_power, clan2_total_power >>

EditLite2(idx, new_power) ==
    /\ calc_mode = "Lite"
    /\ RowRendered(clan2_members, idx)
    /\ new_power # clan2_members[idx].power
    /\ LET major_race == IF clan2_mode = "ATK" THEN "Cat" ELSE "Dog"
       IN  clan2_members' = [clan2_members EXCEPT ![idx] =
                                [race |-> major_race, power |-> new_power]]
    /\ UNCHANGED << pureVars, storeVars, clan1_members, clan1_mode, calc_mode,
                    clan1_total_power, clan2_total_power >>

\* what the Full mode widgets hold when a button is pressed or a row is
\* changed: race, power, level (a change of race, a change of power)
CalcFullInputs ==
    { << "Dog", 400, 1 >>, << "Frog", 400, 1 >>, << "Frog", 3, 1 >> }

CalcStep ==
    \/ ToggleCalcMode
    \/ ToggleAtkDef
    \/ \E value \in TotalPowers : SetTotalPower1(value)
    \/ \E value \in TotalPowers : SetTotalPower2(value)
    \/ Clear1
    \/ Clear2
    \/ \E x \in CalcFullInputs : AddFull1(x[1], x[2], x[3])
    \/ \E x \in CalcFullInputs : AddFull2(x[1], x[2], x[3])
    \/ \E power \in Powers : AddLite1(power)
    \/ \E power \in Powers : AddLite2(power)
    \/ \E idx \in 1..MaxMembers : Delete1(idx)
    \/ \E idx \in 1..MaxMembers : Delete2(idx)
    \/ \E idx \in 1..MaxMembers, x \in CalcFullInputs : EditFull1(idx, x[1], x[2], x[3])
    \/ \E idx \in 1..MaxMembers, x \in CalcFullInputs : EditFull2(idx, x[1], x[2], x[3])
    \/ \E idx \in 1..MaxMembers, power \in Powers : EditLite1(idx, power)
    \/ \E idx \in 1..MaxMembers, power \in Powers : EditLite2(idx, power)

\* the totals the page headers show
app_total_power_1 ==
    IF calc_mode = "Full"
    THEN app_calculate_total_power_full(clan1_members, clan1_mode)
    ELSE app_calculate_total_power_lite(clan1_members, clan1_mode, clan1_total_power)

-----------------------------------------------------------------------------
(* Python strings: sequences of one-character strings *)

Whitespace == {" ", "\t", "\n"}
Digits == {"0", "1", "2", "3", "4", "5", "6", "7", "8", "9"}
LowerLetters == << "a", "b", "c", "d", "e", "f", "g", "h", "i", "j", "k", "l", "m",
                   "n", "o", "p", "q", "r", "s", "t", "u", "v", "w", "x", "y", "z" >>
UpperLetters == << "A", "B", "C", "D", "E", "F", "G", "H", "I", "J", "K", "L", "M",
                   "N", "O", "P", "Q", "R", "S", "T", "U", "V", "W", "X", "Y", "Z" >>

UpperChar(c) ==
    IF \E i \in 1..26 : LowerLetters[i] = c
    THEN UpperLetters[CHOOSE i \in 1..26 : LowerLetters[i] = c]
    ELSE c

LowerChar(c) ==
    IF \E i \in 1..26 : UpperLetters[i] = c
    THEN LowerLetters[CHOOSE i \in 1..26 : UpperLetters[i] = c]
    ELSE c

\* str.upper(), str.lower()
Upper(s) == [i \in 1..Len(s) |-> UpperChar(s[i])]
Lower(s) == [i \in 1..Len(s) |-> LowerChar(s[i])]

\* str.strip()
Strip(s) ==
    LET keep == {i \in 1..Len(s) : s[i] \notin Whitespace}
    IN  IF keep = {} THEN << >>
        ELSE LET first == CHOOSE i \in keep : \A j \in keep : i <= j
                 last  == CHOOSE i \in keep : \A j \in keep : i >= j
             IN  SubSeq(s, first, last)

\* str.replace(c, ''): every occurrence of the character removed
Remove(s, c) == SelectSeq(s, LAMBDA x : x # c)

\* c in s
Contains(s, c) == \E i \in 1..Len(s) : s[i] = c

-----------------------------------------------------------------------------
(* IEEE-754 binary64, as Python's float: a finite non-zero value is        *)
(* bits * 2^exp with bits a sequence of 53 binary digits, the first one 1. *)

Precision == 53

Pow2(n) ==
    << 1, 2, 4, 8, 16, 32, 64, 128, 256, 512, 1024, 2048, 4096, 8192, 16384,
       32768, 65536, 131072, 262144, 524288, 1048576, 2097152, 4194304,
       8388608, 16777216, 33554432, 67108864, 134217728, 268435456,
       536870912, 1073741824 >>[n + 1]

Pow10(n) ==
    << 1, 10, 100, 1000, 10000, 100000, 1000000, 10000000, 100000000,
       1000000000 >>[n + 1]

Zeros(n) == [i \in 1..n |-> 0]

\* the k binary digits of v < 2^k, most significant first
WidthBits(v, k) == [i \in 1..k |-> (v \div Pow2(k - i)) % 2]

\* the binary digits of n (0 <= n < 2^30), none for 0
NatBits(n) ==
    WidthBits(n, CHOOSE k \in 0..30 : Pow2(k) > n /\ (k = 0 \/ Pow2(k - 1) <= n))

Bits8(b) ==
    LET p == Zeros(8 - Len(b)) \o b
    IN  p[1] * 128 + p[2] * 64 + p[3] * 32 + p[4] * 16 + p[5] * 8 + p[6] * 4 + p[7] * 2 + p[8]

\* the natural number a digit sequence stands for
RECURSIVE BitsNat(_)
BitsNat(b) ==
    IF Len(b) <= 8 THEN Bits8(b)
    ELSE BitsNat(SubSeq(b, 1, Len(b) - 8)) * 256 + Bits8(SubSeq(b, Len(b) - 7, Len(b)))

StripLeadingZeros(b) ==
    LET ones == {i \in 1..Len(b) : b[i] = 1}
    IN  IF ones = {} THEN << >>
        ELSE SubSeq(b, CHOOSE i \in ones : \A j \in ones : i <= j, Len(b))

\* the next n binary digits of r/q (0 <= r < q < 2^24), seven at a time,
\* and what is left of r
RECURSIVE FracBits(_, _, _)
FracBits(r, q, n) ==
    IF n = 0 THEN [bits |-> << >>, rem |-> r]
    ELSE LET k    == IF n >= 7 THEN 7 ELSE n
             hi   == (r * Pow2(k)) \div q
             lo   == (r * Pow2(k)) % q
             rest == FracBits(lo, q, n - k)
         IN  [bits |-> WidthBits(hi, k) \o rest.bits, rem |-> rest.rem]

\* the zero binary digits of r/q (0 < r < q) before its first 1
LeadingZeros(r, q) ==
    CHOOSE z \in 0..30 : r * Pow2(z) < q /\ 2 * r * Pow2(z) >= q

\* b + 1, one digit longer when b is all ones
IncBits(b) ==
    LET zeros == {i \in 1..Len(b) : b[i] = 0}
    IN  IF zeros = {} THEN << 1 >> \o Zeros(Len(b))
        ELSE LET last == CHOOSE i \in zeros : \A j \in zeros : i >= j
             IN  [i \in 1..Len(b) |-> IF i < last THEN b[i] ELSE IF i = last THEN 1 ELSE 0]

\* round-half-to-even of b * 2^exp (b[1] = 1; sticky: a non-zero rest lies
\* below b) to a float
RoundToFloat(neg, b, sticky, exp) ==
    LET n == Len(b)
    IN  IF n <= Precision
        THEN [kind |-> "finite", neg |-> neg,
              bits |-> b \o Zeros(Precision - n), exp |-> exp - (Precision - n)]
        ELSE LET top   == SubSeq(b, 1, Precision)
                 guard == b[Precision + 1]
                 below == sticky \/ \E i \in (Precision + 2)..n : b[i] = 1
                 up    == guard = 1 /\ (below \/ top[Precision] = 1)
                 inc   == IncBits(top)
                 e     == exp + (n - Precision)
             IN  IF ~up THEN [kind |-> "finite", neg |-> neg, bits |-> top, exp |-> e]
                 ELSE IF Len(inc) > Precision
                 THEN [kind |-> "finite", neg |-> neg,
                       bits |-> SubSeq(inc, 1, Precision), exp |-> e + 1]
                 ELSE [kind |-> "finite", neg |-> neg, bits |-> inc, exp |-> e]

\* the float nearest to p / 10^d
DecimalToFloat(neg, p, d) ==
    LET q  == Pow10(d)
        ip == p \div q
        r0 == p % q
        ib == NatBits(ip)
    IN  IF p = 0 THEN [kind |-> "zero", neg |-> neg]
        ELSE IF ip > 0
        THEN LET f == FracBits(r0, q, Precision + 1)
             IN  RoundToFloat(neg, ib \o f.bits, f.rem # 0, -(Precision + 1))
        ELSE LET z == LeadingZeros(r0, q)
                 f == FracBits(r0 * Pow2(z), q, Precision + 1)
             IN  RoundToFloat(neg, f.bits, f.rem # 0, -(z + Precision + 1))

\* bits * c for a natural c < 2^20, ten binary digits at a time from the
\* last digit up; hi: the digits of bits not yet multiplied
RECURSIVE MulLoop(_, _, _, _)
MulLoop(hi, c, carry, out) ==
    IF hi = << >> THEN NatBits(carry) \o out
    ELSE LET k    == IF Len(hi) >= 10 THEN 10 ELSE Len(hi)
             limb == BitsNat(SubSeq(hi, Len(hi) - k + 1, Len(hi)))
             acc  == limb * c + carry
         IN  MulLoop(SubSeq(hi, 1, Len(hi) - k), c, acc \div Pow2(k),
                     WidthBits(acc % Pow2(k), k) \o out)

\* float * int (the int is exact as a float: c < 2^53)
FloatTimes(x, c) ==
    IF x.kind = "finite"
    THEN RoundToFloat(x.neg, StripLeadingZeros(MulLoop(x.bits, c, 0, << >>)), FALSE, x.exp)
    ELSE x

DigitValue(c) == CHOOSE v \in 0..9 : << "0", "1", "2", "3", "4", "5", "6", "7", "8", "9" >>[v + 1] = c

RECURSIVE DigitsNat(_)
DigitsNat(s) ==
    IF s = << >> THEN 0
    ELSE 10 * DigitsNat(SubSeq(s, 1, Len(s) - 1)) + DigitValue(s[Len(s)])

\* float(s) of a string.  Exponents ("1e5"), digit separators ("1_0") and
\* non-ASCII digits are outside the input alphabet of this model.
PyFloat(str) ==
    LET s    == Strip(str)
        sgn  == s # << >> /\ s[1] \in {"+", "-"}
        neg  == s # << >> /\ s[1] = "-"
        body == IF sgn THEN Tail(s) ELSE s
        dots == {i \in 1..Len(body) : body[i] = "."}
        dot  == IF dots = {} THEN Len(body) + 1 ELSE CHOOSE i \in dots : TRUE
        ipart == SubSeq(body, 1, dot - 1)
        fpart == SubSeq(body, dot + 1, Len(body))
    IN  IF Upper(body) \in { << "I", "N", "F" >>,
                             << "I", "N", "F", "I", "N", "I", "T", "Y" >> }
        THEN [kind |-> "inf", neg |-> neg]
        ELSE IF Upper(body) = << "N", "A", "N" >>
        THEN [kind |-> "nan", neg |-> neg]
        ELSE IF /\ Cardinality(dots) <= 1
                /\ Len(ipart) + Len(fpart) > 0
                /\ \A i \in 1..Len(ipart) : ipart[i] \in Digits
                /\ \A i \in 1..Len(fpart) : fpart[i] \in Digits
        THEN DecimalToFloat(neg, DigitsNat(ipart \o fpart), Len(fpart))
        ELSE [kind |-> "ValueError"]

\* int(x) of a float: truncation toward zero
PyInt(x) ==
    IF x.kind = "nan" THEN [raised |-> "ValueError", value |-> 0]
    ELSE IF x.kind = "inf" THEN [raised |-> "OverflowError", value |-> 0]
    ELSE IF x.kind = "zero" THEN [raised |-> "none", value |-> 0]
    ELSE LET keep == Precision + x.exp
             mag  == IF keep <= 0 THEN 0
                     ELSE IF x.exp <= 0 THEN BitsNat(SubSeq(x.bits, 1, keep))
                     ELSE BitsNat(x.bits) * Pow2(x.exp)
         IN  [raised |-> "none", value |-> IF x.neg THEN -mag ELSE mag]

-----------------------------------------------------------------------------
(* app_2.py: parse_stat_input *)

\* int(number) where number is what float() gave: a ValueError of float()
\* comes before int()
IntOf(number) ==
    IF number.kind = "ValueError" THEN [raised |-> "ValueError", value |-> 0]
    ELSE PyInt(number)

\* number * mult where number is what float() gave
Times(number, mult) ==
    IF number.kind = "ValueError" THEN number ELSE FloatTimes(number, mult)

\* the branch of the try block for a string that holds the suffix:
\* int(float(value_str.replace(suffix, '')) * mult)
ParseScaled(value_str, suffix, mult) ==
    IntOf(Times(PyFloat(Remove(value_str, suffix)), mult))

\* the last branch of the try block: int(float(value_str))
ParsePlain(value_str) == IntOf(PyFloat(value_str))

\* the try block
TryBlock(value_str) ==
    IF Contains(value_str, "M") THEN ParseScaled(value_str, "M", 1000000)
    ELSE IF Contains(value_str, "K") THEN ParseScaled(value_str, "K", 1000)
    ELSE ParsePlain(value_str)

\* except (ValueError, AttributeError): return 0
Except(tried) ==
    IF tried.raised = "ValueError" THEN [raised |-> "none", value |-> 0]
    ELSE tried

\* value: [type |-> "int", value |-> n], [type |-> "float", literal |-> chars]
\* or [type |-> "str", chars |-> chars].  The result is [raised, value]:
\* raised = "none" and the integer returned, or the exception that leaves
\* the function.
parse_stat_input(value) ==
    IF value.type = "int" THEN [raised |-> "none", value |-> value.value]
    ELSE IF value.type = "float" THEN PyInt(PyFloat(value.literal))
    ELSE Except(TryBlock(Remove(Upper(Strip(value.chars)), " ")))

-----------------------------------------------------------------------------
(* parse_stat_input applied to one argument *)

NotCalled == [raised |-> "not called", value |-> 0]

ParseCall ==
    /\ parse_result = NotCalled
    /\ parse_result' = parse_stat_input(value_input)
    /\ UNCHANGED << value_input, calcVars, formatVars, powerVars, ioVars, storeVars >>

-----------------------------------------------------------------------------
(* app_2.py: format_stat *)

DigitChar(v) == << "0", "1", "2", "3", "4", "5", "6", "7", "8", "9" >>[v + 1]

\* str(n) of an integer
RECURSIVE NatDigits(_)
NatDigits(n) ==
    IF n < 10 THEN << DigitChar(n) >>
    ELSE NatDigits(n \div 10) \o << DigitChar(n % 10) >>

IntStr(n) == IF n < 0 THEN << "-" >> \o NatDigits(-n) ELSE NatDigits(n)

\* f"{x:.1f}" of a float x with 1 <= x < 2^26: the decimal with one digit
\* after the point nearest to the exact value of x, the even one on a tie
OneDecimal(x) ==
    LET prod   == StripLeadingZeros(MulLoop(x.bits, 10, 0, << >>))
        n      == Len(prod)
        frac   == -x.exp
        t0     == BitsNat(SubSeq(prod, 1, n - frac))
        guard  == prod[n - frac + 1]
        below  == \E i \in (n - frac + 2)..n : prod[i] = 1
        tenths == IF guard = 1 /\ (below \/ t0 % 2 = 1) THEN t0 + 1 ELSE t0
    IN  NatDigits(tenths \div 10) \o << "." >> \o << DigitChar(tenths % 10) >>

\* a faulty variant: the thousands branch is taken from 100 on
Mutant_C21_format_stat(value) ==
    IF value >= 1000000
    THEN OneDecimal(DecimalToFloat(FALSE, value, 6)) \o << "M" >>
    ELSE IF value >= 100
    THEN OneDecimal(DecimalToFloat(FALSE, value * 10, 3)) \o << "K" >>
    ELSE IntStr(value)

\* value: an integer below 2^31.  value / 1_000_000 and value / 1_000 are
\* the floats nearest to the quotients.
format_stat(value) ==
    IF value >= 1000000
    THEN OneDecimal(DecimalToFloat(FALSE, value, 6)) \o << "M" >>
    ELSE IF value >= 1000
    THEN OneDecimal(DecimalToFloat(FALSE, value, 3)) \o << "K" >>
    ELSE IntStr(value)

NotFormatted == [formatted |-> FALSE]

\* one call of format_stat
FormatCall ==
    /\ format_result = NotFormatted
    /\ format_result' = [formatted |-> TRUE, text |-> format_stat(format_value)]
    /\ UNCHANGED << format_value, calcVars, parseVars, powerVars, ioVars, storeVars >>

-----------------------------------------------------------------------------
(* Member stats store (app_2.py, render_member_stats).                     *)
(*                                                                         *)
(* Strings the code trims, lowercases or measures (names, keys, PINs, stat *)
(* inputs) are sequences of characters; secrets and reports, which it only *)
(* compares or shows, are plain strings.                                   *)

\* Python None where the code tests it for truth (None and '' are both falsy;
\* no clan key is empty)
None == << >>

\* a key st.session_state may or may not hold
Absent == [present |-> FALSE]
Some(v) == [present |-> TRUE, value |-> v]

SECRET_KEY == "windissupervippro"

\* a JSON document: a list of items or a dict of entries
List(items) == [type |-> "list", items |-> items]
Dict(entries) == [type |-> "dict", entries |-> entries]

Size(doc) == IF doc.type = "list" THEN Len(doc.items)
             ELSE Cardinality(DOMAIN doc.entries)

\* d[k] = v on a dict
Put(d, k, v) == [x \in DOMAIN d \cup {k} |-> IF x = k THEN v ELSE d[x]]

\* del d[k]
Del(d, k) == [x \in DOMAIN d \ {k} |-> d[x]]

\* a faulty variant of d.update(e): an entry d holds already is kept
Mutant_C8_Update(d, e) ==
    [x \in DOMAIN d \cup DOMAIN e |-> IF x \in DOMAIN d THEN d[x] ELSE e[x]]

\* d.update(e)
Update(d, e) == [x \in DOMAIN d \cup DOMAIN e |-> IF x \in DOMAIN e THEN e[x] ELSE d[x]]

Range(seq) == {seq[i] : i \in 1..Len(seq)}

\* str.isdigit() on the ASCII alphabet
IsDigit(s) == s # << >> /\ \A i \in 1..Len(s) : s[i] \in Digits

\* get_utc_timestamp(): the clock, to the second
get_utc_timestamp == now

\* what st.selectbox("Choose Clan") can hold once its list of options has
\* changed: the chosen option while it is still an option, or the first
\* option (a release of the library that rebuilds a widget whose options
\* changed resets it to index 0)
SelectedAfter(order, selected) ==
    IF order = << >> THEN {None}
    ELSE {order[1]} \cup ({selected} \cap Range(order))

\* current_clan_pin after the top of a run: line 590-592 makes an unlocked
\* selection the current clan, line 757-759 drops a current clan that is gone
CurrentAfter(cl, selected, authenticated, current) ==
    LET c == IF selected # None /\ selected \in authenticated THEN selected ELSE current
    IN  IF c # None /\ c \notin DOMAIN cl THEN None ELSE c

\* the sidebar section and the main content of the current clan are rendered
ClanShown == current_clan_pin # None /\ current_clan_pin \in DOMAIN clans

members == clans[current_clan_pin].members

\* lines 850 and 852: int(extracted_data.get(field, 0)) handed to
\* number_input(min_value=0) works on a dict whose atk and def, where
\* present, are non-negative numbers
Confirmable(data) ==
    /\ data.type = "dict"
    /\ \A f \in DOMAIN data.entries \cap {"atk", "def"} : data.entries[f] >= 0

\* the "Review and Confirm" block reads extracted_data and extracted_name
ConfirmationRenders ==
    show_confirmation =>
        /\ extracted_data.present
        /\ extracted_name.present
        /\ Confirmable(extracted_data.value)

\* the rows of the member list read name, atk and def of every entry
ListRenders ==
    \A k \in DOMAIN members : {"name", "atk", "def"} \subseteq DOMAIN members[k]

\* the delete dialog reads members[delete_pending]['name']
DialogShown ==
    /\ ClanShown
    /\ ConfirmationRenders
    /\ DOMAIN members # {}
    /\ ListRenders
    /\ show_delete_dialog
    /\ delete_pending.present
    /\ delete_pending.value \in DOMAIN members

\* a faulty variant: the members are written to every clan
Mutant_C30_SaveMembers(new_members) ==
    /\ clans' = [k \in DOMAIN clans |-> [clans[k] EXCEPT !.members = new_members]]
    /\ UNCHANGED clan_order

\* save_clans(clans) with the current clan's members replaced
SaveMembers(new_members) ==
    /\ clans' = [clans EXCEPT ![current_clan_pin].members = new_members]
    /\ UNCHANGED clan_order

InitStore ==
    /\ clans = << >>
    /\ clan_order = << >>
    /\ now = 0
    /\ selected_clan = None
    /\ current_clan_pin = None
    /\ authenticated_clans = {}
    /\ import_data = Absent
    /\ show_import_options = FALSE
    /\ delete_pending = Absent
    /\ show_delete_dialog = FALSE
    /\ extracted_data = Absent
    /\ extracted_name = Absent
    /\ show_confirmation = FALSE
    /\ report = ""

\* bound of the clock
MaxTime == 1

\* time passes
Tick ==
    /\ now < MaxTime
    /\ now' = now + 1
    /\ UNCHANGED << calcVars, pureVars, fileVars, sessionVars, report >>

\* a faulty variant of "Create Clan": a name that is taken is not refused
Mutant_C16_CreateClan(new_clan_name, new_clan_pin) ==
    LET clan_key == Lower(Strip(new_clan_name))
    IN  /\ Strip(new_clan_name) # << >>
        /\ Len(new_clan_pin) >= 4
        /\ Len(new_clan_pin) <= 8
        /\ IsDigit(new_clan_pin)
        /\ clans' = Put(clans, clan_key,
                        [name |-> Strip(new_clan_name), pin |-> new_clan_pin,
                         members |-> << >>, created_at |-> get_utc_timestamp])
        /\ clan_order' = IF clan_key \in DOMAIN clans THEN clan_order
                         ELSE Append(clan_order, clan_key)
        /\ report' = "success: Clan created"
        /\ selected_clan' \in SelectedAfter(clan_order', selected_clan)
        /\ current_clan_pin' = CurrentAfter(clans', selected_clan',
                                            authenticated_clans, current_clan_pin)
        /\ UNCHANGED << calcVars, pureVars, now, authenticated_clans, importVars, deleteVars,
                        extractVars >>

\* "Create Clan"
CreateClan(new_clan_name, new_clan_pin) ==
    LET clan_key == Lower(Strip(new_clan_name))
        problem ==
            IF Strip(new_clan_name) = << >> THEN "error: Please enter a clan name"
            ELSE IF Strip(new_clan_pin) = << >> THEN "error: Please enter a PIN code"
            ELSE IF Len(new_clan_pin) < 4 \/ Len(new_clan_pin) > 8
                 THEN "error: PIN must be 4-8 digits"
            ELSE IF ~IsDigit(new_clan_pin) THEN "error: PIN must contain only numbers"
            ELSE IF clan_key \in DOMAIN clans THEN "error: Clan name already exists!"
            ELSE ""
    IN  IF problem # ""
        THEN /\ report' = problem
             /\ UNCHANGED << calcVars, pureVars, fileVars, now, sessionVars >>
        ELSE /\ clans' = Put(clans, clan_key,
                             [name |-> Strip(new_clan_name), pin |-> new_clan_pin,
                              members |-> << >>, created_at |-> get_utc_timestamp])
             /\ clan_order' = Append(clan_order, clan_key)
             /\ report' = "success: Clan created"
             \* st.rerun()
             /\ selected_clan' \in SelectedAfter(clan_order', selected_clan)
             /\ current_clan_pin' = CurrentAfter(clans', selected_clan',
                                                 authenticated_clans, current_clan_pin)
             /\ UNCHANGED << calcVars, pureVars, now, authenticated_clans, importVars, deleteVars,
                             extractVars >>

\* another option chosen in "Choose Clan"
SelectClan(clan_key) ==
    /\ clan_key \in DOMAIN clans
    /\ clan_key # selected_clan
    /\ selected_clan' = clan_key
    /\ current_clan_pin' = CurrentAfter(clans, clan_key, authenticated_clans,
                                        current_clan_pin)
    /\ report' = ""
    /\ UNCHANGED << calcVars, pureVars, fileVars, now, authenticated_clans, importVars,
                    deleteVars, extractVars >>

\* a faulty variant of "Unlock": the PIN of any clan opens the selected one
Mutant_C17_Unlock(pin_input) ==
    /\ selected_clan # None
    /\ selected_clan \notin authenticated_clans
    /\ IF \E c \in DOMAIN clans : pin_input = clans[c].pin
       THEN /\ authenticated_clans' = authenticated_clans \cup {selected_clan}
            /\ current_clan_pin' = selected_clan
            /\ report' = "success: Unlocked"
       ELSE /\ report' = "error: Incorrect PIN!"
            /\ UNCHANGED << authenticated_clans, current_clan_pin >>
    /\ UNCHANGED << calcVars, pureVars, fileVars, now, selected_clan, importVars,
                    deleteVars, extractVars >>

\* "Unlock" (shown while the selected clan is not unlocked)
Unlock(pin_input) ==
    /\ selected_clan # None
    /\ selected_clan \notin authenticated_clans
    /\ IF pin_input = clans[selected_clan].pin
       THEN /\ authenticated_clans' = authenticated_clans \cup {selected_clan}
            /\ current_clan_pin' = selected_clan
            /\ report' = "success: Unlocked"
       ELSE /\ report' = "error: Incorrect PIN!"
            /\ UNCHANGED << authenticated_clans, current_clan_pin >>
    /\ UNCHANGED << calcVars, pureVars, fileVars, now, selected_clan, importVars,
                    deleteVars, extractVars >>

\* a faulty variant of "Lock Clan": the current clan is kept
Mutant_C25_Lock ==
    /\ selected_clan # None
    /\ selected_clan \in authenticated_clans
    /\ authenticated_clans' = authenticated_clans \ {selected_clan}
    /\ report' = ""
    /\ UNCHANGED << calcVars, pureVars, fileVars, now, selected_clan, current_clan_pin,
                    importVars, deleteVars, extractVars >>

\* "Lock Clan" (shown while the selected clan is unlocked)
Lock ==
    /\ selected_clan # None
    /\ selected_clan \in authenticated_clans
    /\ authenticated_clans' = authenticated_clans \ {selected_clan}
    /\ current_clan_pin' = IF current_clan_pin = selected_clan THEN None
                           ELSE current_clan_pin
    /\ report' = ""
    /\ UNCHANGED << calcVars, pureVars, fileVars, now, selected_clan, importVars,
                    deleteVars, extractVars >>

\* a faulty variant of the upload: the member of a list is staged
Mutant_C18_UploadFile(upload) ==
    /\ ClanShown
    /\ IF upload.kind = "list"
       THEN /\ import_data' = Some(Lower(upload.data[1].name) :> upload.data[1])
            /\ show_import_options' = TRUE
            /\ report' = ""
       ELSE /\ report' = IF upload.kind # "dict"
                         THEN "error: Invalid format! JSON must be an object/dictionary."
                         ELSE ""
            /\ UNCHANGED importVars
    /\ UNCHANGED << calcVars, pureVars, fileVars, now, clanVars, deleteVars, extractVars >>

\* a file chosen in "Import Clan Data": json.load gives a dict or something
\* else
UploadFile(upload) ==
    /\ ClanShown
    /\ report' = IF upload.kind # "dict"
                 THEN "error: Invalid format! JSON must be an object/dictionary."
                 ELSE ""
    /\ UNCHANGED << calcVars, pureVars, fileVars, now, sessionVars >>

\* a faulty variant of "Import Data": the secret is not compared
Mutant_C10_ImportData(upload, import_secret) ==
    /\ ClanShown
    /\ upload.kind = "dict"
    /\ import_data' = Some(upload.data)
    /\ show_import_options' = TRUE
    /\ report' = ""
    /\ UNCHANGED << calcVars, pureVars, fileVars, now, clanVars, deleteVars, extractVars >>

\* "Import Data" under the preview of an uploaded dict
ImportData(upload, import_secret) ==
    /\ ClanShown
    /\ upload.kind = "dict"
    /\ IF import_secret = SECRET_KEY
       THEN /\ import_data' = Some(upload.data)
            /\ show_import_options' = TRUE
            /\ report' = ""
       ELSE /\ report' = "error: Invalid secret key!"
            /\ UNCHANGED importVars
    /\ UNCHANGED << calcVars, pureVars, fileVars, now, clanVars, deleteVars, extractVars >>

\* "Cancel Import": st.rerun() and nothing else
CancelImport ==
    /\ ClanShown
    /\ report' = ""
    /\ UNCHANGED << calcVars, pureVars, fileVars, now, sessionVars >>

\* "Confirm Import" in the import options.  Line 718 reads
\* st.session_state.import_data after line 717 popped it: the run ends in
\* an AttributeError after the save, and st.rerun() is not reached.
ConfirmImport(import_mode) ==
    /\ ClanShown
    /\ show_import_options
    /\ IF ~import_data.present
       THEN /\ report' = "exception: AttributeError: import_data"
            /\ UNCHANGED << fileVars, importVars >>
       ELSE /\ SaveMembers(IF import_mode = "Replace (overwrite all members)"
                           THEN import_data.value
                           ELSE Update(members, import_data.value))
            /\ show_import_options' = FALSE
            /\ import_data' = Absent
            /\ report' = "exception: AttributeError: import_data"
    /\ UNCHANGED << calcVars, pureVars, now, clanVars, deleteVars, extractVars >>

\* "Cancel" in the import options
CancelImportOptions ==
    /\ ClanShown
    /\ show_import_options
    /\ show_import_options' = FALSE
    /\ import_data' = Absent
    /\ report' = ""
    /\ UNCHANGED << calcVars, pureVars, fileVars, now, clanVars, deleteVars, extractVars >>

\* "Confirm Delete Clan"
DeleteClan(delete_secret) ==
    /\ ClanShown
    /\ IF delete_secret = SECRET_KEY
       THEN /\ clans' = Del(clans, current_clan_pin)
            /\ clan_order' = SelectSeq(clan_order, LAMBDA k : k # current_clan_pin)
            /\ authenticated_clans' = authenticated_clans \ {current_clan_pin}
            /\ report' = "success: Deleted clan"
            \* st.rerun()
            /\ selected_clan' \in SelectedAfter(clan_order', selected_clan)
            /\ current_clan_pin' = CurrentAfter(clans', selected_clan',
                                                authenticated_clans', None)
       ELSE /\ report' = "error: Invalid secret key!"
            /\ UNCHANGED << fileVars, clanVars >>
    /\ UNCHANGED << calcVars, pureVars, now, importVars, deleteVars, extractVars >>

\* the texts typed into the ATK and DEF fields of the manual form
StatInputs ==
    { <<"7">>, <<"2", "M">>, <<"5", "0", "0", "K">>,
      <<"4", ".", "1", "M">>, <<"i", "n", "f">>, <<"-", "5">> }

ParsedStat == [s \in StatInputs |-> parse_stat_input([type |-> "str", chars |-> s])]

\* parse_stat_input(x) if x else 0
StatOf(input) == IF input = << >> THEN [raised |-> "none", value |-> 0]
                 ELSE ParsedStat[input]

\* a faulty variant of "Add Member": the name is not checked
Mutant_C11_AddMember(name, atk_input, def_input) ==
    LET atk == StatOf(atk_input)
        def_val == StatOf(def_input)
        name_key == Lower(Strip(name))
        is_update == name_key \in DOMAIN members
    IN  /\ ClanShown
        /\ IF atk.raised # "none" \/ def_val.raised # "none"
           THEN /\ report' = "exception: OverflowError"
                /\ UNCHANGED fileVars
           ELSE /\ SaveMembers(Put(members, name_key,
                                   [name |-> Strip(name), atk |-> atk.value,
                                    def |-> def_val.value,
                                    updated_at |-> get_utc_timestamp]))
                /\ report' = IF is_update THEN "success: Updated" ELSE "success: Added"
        /\ UNCHANGED << calcVars, pureVars, now, sessionVars >>

\* "Add Member" of the manual form
AddMember(name, atk_input, def_input) ==
    LET atk == StatOf(atk_input)
        def_val == StatOf(def_input)
        name_key == Lower(Strip(name))
        is_update == name_key \in DOMAIN members
    IN  /\ ClanShown
        /\ IF Strip(name) = << >>
           THEN /\ report' = "error: Please enter a name"
                /\ UNCHANGED fileVars
           ELSE IF atk.raised # "none" \/ def_val.raised # "none"
           THEN /\ report' = "exception: OverflowError"
                /\ UNCHANGED fileVars
           ELSE /\ SaveMembers(Put(members, name_key,
                                   [name |-> Strip(name), atk |-> atk.value,
                                    def |-> def_val.value,
                                    updated_at |-> get_utc_timestamp]))
                /\ report' = IF is_update THEN "success: Updated" ELSE "success: Added"
        /\ UNCHANGED << calcVars, pureVars, now, sessionVars >>

\* a faulty variant of "Extract Stats from Image": what was extracted is
\* stored at once
Mutant_C14_ExtractStats(img_name, has_file, extracted) ==
    /\ ClanShown
    /\ Strip(img_name) # << >>
    /\ has_file
    /\ extracted.present
    /\ Confirmable(extracted.value)
    /\ {"atk", "def"} \subseteq DOMAIN extracted.value.entries
    /\ SaveMembers(Put(members, Lower(Strip(img_name)),
                       [name |-> Strip(img_name), atk |-> extracted.value.entries.atk,
                        def |-> extracted.value.entries.def,
                        updated_at |-> get_utc_timestamp]))
    /\ report' = "success: Stats extracted successfully!"
    /\ UNCHANGED << calcVars, pureVars, now, sessionVars >>

\* "Extract Stats from Image"; extracted is what extract_stats_from_image
\* returned: None with its st.error, or the JSON document of the response.
\* A document that is not empty is kept and the "Review and Confirm" block
\* of the same run reads it.
ExtractStats(img_name, has_file, extracted) ==
    /\ ClanShown
    /\ IF Strip(img_name) = << >>
       THEN /\ report' = "error: Please enter a name"
            /\ UNCHANGED extractVars
       ELSE IF ~has_file
       THEN /\ report' = "error: Please upload an image"
            /\ UNCHANGED extractVars
       ELSE IF extracted.present /\ Size(extracted.value) > 0
       THEN /\ extracted_data' = extracted
            /\ extracted_name' = Some(Strip(img_name))
            /\ show_confirmation' = TRUE
            /\ report' = IF Confirmable(extracted.value)
                         THEN "success: Stats extracted successfully!"
                         ELSE "exception: AttributeError: get"
       ELSE /\ report' = IF extracted.present THEN ""
                         ELSE "error: Error processing image with Gemini"
            /\ UNCHANGED extractVars
    /\ UNCHANGED << calcVars, pureVars, fileVars, now, clanVars, importVars, deleteVars >>

\* "Confirm & Add" under the extracted stats.  Lines 875 and 877 read
\* st.session_state.extracted_name after line 872 popped it: the run ends
\* in an AttributeError after the save, and st.rerun() is not reached.
ConfirmAdd(ext_atk, ext_def) ==
    LET name_key == Lower(extracted_name.value)
    IN  /\ ClanShown
        /\ show_confirmation
        /\ ConfirmationRenders
        /\ SaveMembers(Put(members, name_key,
                           [name |-> extracted_name.value, atk |-> ext_atk,
                            def |-> ext_def, updated_at |-> get_utc_timestamp]))
        /\ show_confirmation' = FALSE
        /\ extracted_data' = Absent
        /\ extracted_name' = Absent
        /\ report' = "exception: AttributeError: extracted_name"
        /\ UNCHANGED << calcVars, pureVars, now, clanVars, importVars, deleteVars >>

\* "Cancel" under the extracted stats
CancelConfirm ==
    /\ ClanShown
    /\ show_confirmation
    /\ ConfirmationRenders
    /\ show_confirmation' = FALSE
    /\ extracted_data' = Absent
    /\ extracted_name' = Absent
    /\ report' = ""
    /\ UNCHANGED << calcVars, pureVars, fileVars, now, clanVars, importVars, deleteVars >>

\* the delete button of one row of the member list
RequestDelete(name_key) ==
    /\ ClanShown
    /\ ConfirmationRenders
    /\ ListRenders
    /\ name_key \in DOMAIN members
    /\ delete_pending' = Some(name_key)
    /\ show_delete_dialog' = TRUE
    /\ report' = ""
    /\ UNCHANGED << calcVars, pureVars, fileVars, now, clanVars, importVars, extractVars >>

\* a faulty variant of "Confirm Delete": the secret is not compared
Mutant_C9_ConfirmDelete(secret_input) ==
    /\ DialogShown
    /\ SaveMembers(Del(members, delete_pending.value))
    /\ show_delete_dialog' = FALSE
    /\ delete_pending' = Absent
    /\ report' = "success: Deleted"
    /\ UNCHANGED << calcVars, pureVars, now, clanVars, importVars, extractVars >>

\* "Confirm Delete" in the delete dialog
ConfirmDelete(secret_input) ==
    /\ DialogShown
    /\ IF secret_input = SECRET_KEY
       THEN /\ SaveMembers(Del(members, delete_pending.value))
            /\ show_delete_dialog' = FALSE
            /\ delete_pending' = Absent
            /\ report' = "success: Deleted"
       ELSE /\ report' = "error: Invalid secret key!"
            /\ UNCHANGED << fileVars, deleteVars >>
    /\ UNCHANGED << calcVars, pureVars, now, clanVars, importVars, extractVars >>

\* "Cancel" in the delete dialog
CancelDelete ==
    /\ DialogShown
    /\ show_delete_dialog' = FALSE
    /\ delete_pending' = Absent
    /\ report' = ""
    /\ UNCHANGED << calcVars, pureVars, fileVars, now, clanVars, importVars, extractVars >>

-----------------------------------------------------------------------------
(* Persistence calls (app_2.py: load_members, save_members, save_clans).   *)
(*                                                                         *)
(* json.dump hands the document to the file piece by piece: "{}" or "[]" for an      *)
(* empty document, else the opening bracket, one piece per top-level entry *)
(* and the closing bracket.  A file on disk is the document last written   *)
(* to it and the number of its pieces that got there.                      *)

\* the number of pieces json.dump writes for the document
Pieces(doc) == IF Size(doc) = 0 THEN 1 ELSE Size(doc) + 2

NoFile == [exists |-> FALSE]
File(doc) == [exists |-> TRUE, doc |-> doc, written |-> Pieces(doc)]

\* json.load succeeds on the file
Complete(file) == file.exists /\ file.written = Pieces(file.doc)

Idle(arg) == [state |-> "idle", arg |-> arg]

\* the loop of lines 98-101
RECURSIVE migrate_loop(_, _, _)
migrate_loop(data, i, migrated_data) ==
    IF i > Len(data) THEN migrated_data
    ELSE migrate_loop(data, i + 1,
             IF "name" \in DOMAIN data[i] /\ Lower(data[i].name) # << >>
             THEN Put(migrated_data, Lower(data[i].name), data[i])
             ELSE migrated_data)

\* the file after save_members(migrated_data), if line 103 lets it run
AfterMigration(file, migrated_data) ==
    IF migrated_data # << >> THEN File(Dict(migrated_data)) ELSE file

\* what load_members returns on the file
Loaded(file) ==
    IF ~file.exists THEN << >>
    ELSE IF file.doc.type = "list" THEN migrate_loop(file.doc.items, 1, << >>)
    ELSE file.doc.entries

\* load_members()
load_members ==
    /\ file_call.state = "idle"
    /\ ~backing_file.exists \/ Complete(backing_file)
    /\ file_call' = [state |-> "loaded", arg |-> file_call.arg,
                     before |-> backing_file, result |-> Loaded(backing_file)]
    /\ backing_file' = IF backing_file.exists /\ backing_file.doc.type = "list"
                       THEN AfterMigration(backing_file, Loaded(backing_file))
                       ELSE backing_file
    /\ UNCHANGED << calcVars, parseVars, formatVars, powerVars, storeVars >>

\* save_clans / save_members, line by line.  open(..., 'w') either fails
\* and leaves the file alone or leaves an empty file
save_open(opens) ==
    /\ file_call.state = "idle"
    /\ IF opens
       THEN /\ backing_file' = [exists |-> TRUE, doc |-> file_call.arg, written |-> 0]
            /\ file_call' = [state |-> "writing", arg |-> file_call.arg,
                             before |-> backing_file]
       ELSE /\ file_call' = [state |-> "failed", arg |-> file_call.arg,
                             before |-> backing_file]
            /\ UNCHANGED backing_file
    /\ UNCHANGED << calcVars, parseVars, formatVars, powerVars, storeVars >>

\* json.dump: the next piece reaches the file
save_write ==
    /\ file_call.state = "writing"
    /\ backing_file.written < Pieces(backing_file.doc)
    /\ backing_file' = [backing_file EXCEPT !.written = @ + 1]
    /\ UNCHANGED << file_call, calcVars, parseVars, formatVars, powerVars, storeVars >>

\* the with block is left after the last piece
save_close ==
    /\ file_call.state = "writing"
    /\ backing_file.written = Pieces(backing_file.doc)
    /\ file_call' = [file_call EXCEPT !.state = "saved"]
    /\ UNCHANGED << backing_file, calcVars, parseVars, formatVars, powerVars, storeVars >>

\* a write raises (disk full, device error) before the last piece is out
save_fail ==
    /\ file_call.state = "writing"
    /\ backing_file.written < Pieces(backing_file.doc)
    /\ file_call' = [file_call EXCEPT !.state = "failed"]
    /\ UNCHANGED << backing_file, calcVars, parseVars, formatVars, powerVars, storeVars >>

-----------------------------------------------------------------------------
(* Inputs *)

ClanNameInputs == { <<"X">>, <<" ">> }

\* clan names of the pages of several clans: two clans, the first one
\* again in another case, and a blank name
TwoClanNameInputs == { <<"X">>, <<" ", "y">>, <<"x", " ">>, <<" ", " ">> }

\* the options "Choose Clan" can show
TwoClanKeys == { Lower(Strip(n)) : n \in TwoClanNameInputs } \ { << >> }

\* PINs of the pages of several clans: two PINs the code accepts, and one
\* that is too short, too long, not numeric, padded, blank, empty
TwoClanPinInputs ==
    { <<"1", "2", "3", "4">>,
      <<"5", "6", "7", "8", "9", "0", "1", "2">>,
      <<"1", "2", "3">>,
      <<"1", "2", "3", "4", "5", "6", "7", "8", "9">>,
      <<"1", "2", "3", "a">>,
      <<" ", "1", "2", "3", "4">>,
      <<" ", " ", " ", " ">>,
      << >> }

\* PINs typed to unlock: the two stored ones and a padded one
TwoClanUnlockInputs ==
    { <<"1", "2", "3", "4">>,
      <<"5", "6", "7", "8", "9", "0", "1", "2">>,
      <<"1", "2", "3", "4", " ">> }

\* the manual form on the pages of several clans
TwoClanManualInputs == { << <<"A">>, <<"2", "M">>, << >> >> }

PinInputs ==
    { <<"1", "2", "3", "4">>, <<"1", "2">>, <<"1", "2", "3", "a">>, << >> }

UnlockInputs == { <<"1", "2", "3", "4">>, <<"0", "0", "0", "0">> }

SecretInputs == { SECRET_KEY, "wrong" }

\* what is typed into the manual form: name, ATK, DEF
ManualInputs ==
    { << <<"A">>, <<"2", "M">>, << >> >>,
      << <<"b">>, << >>, <<"5", "0", "0", "K">> >>,
      << <<" ", "a", " ">>, <<"4", ".", "1", "M">>, <<"5", "0", "0", "K">> >>,
      << <<" ">>, <<"2", "M">>, << >> >>,
      << <<"A">>, <<"i", "n", "f">>, <<"7">> >>,
      << <<"b">>, <<"-", "5">>, <<"7">> >> }

\* an export of a roster written before entries carried a timestamp
PayloadNormal ==
    (<<"a">> :> [name |-> <<"A">>, atk |-> 5, def |-> 6])

\* a hand-written file whose key is the display name as typed
PayloadRawKey ==
    (<<"B">> :> [name |-> <<"B">>, atk |-> 3, def |-> 4, updated_at |-> 0])

\* the member a file that is not a JSON object carries
Zed == [name |-> <<"Z">>, atk |-> 1, def |-> 99]

\* an uploaded file by what json.load gives: a dict, a list, a number
Uploads ==
    { [kind |-> "dict", data |-> PayloadNormal],
      [kind |-> "dict", data |-> PayloadRawKey],
      [kind |-> "list", data |-> << Zed >>],
      [kind |-> "number", data |-> 99] }

ImportModes == { "Merge (keep existing + add new)", "Replace (overwrite all members)" }

\* the clicks on "Extract Stats from Image": the name, whether an image is
\* there, what the extraction gives; a click that is refused for its name
\* or for the missing image is taken with one extraction only.
\* extract_stats_from_image gives None, the object asked for, an empty
\* object, or a list
ExtractInputs ==
    { << <<" ">>, TRUE, Absent >>,
      << <<"A", " ">>, FALSE, Absent >>,
      << <<"A", " ">>, TRUE, Absent >>,
      << <<"A", " ">>, TRUE, Some(Dict([atk |-> 7, def |-> 9])) >>,
      << <<"A", " ">>, TRUE, Some(Dict(<< >>)) >>,
      << <<"A", " ">>, TRUE, Some(List(<< 7, 9 >>)) >> }

\* the clicks on "Create Clan": a blank name is taken with one PIN only
CreateInputs ==
    { << <<" ">>, <<"1", "2", "3", "4">> >> }
    \cup ({ n \in ClanNameInputs : n # <<" ">> } \X PinInputs)

\* the values of the two number inputs when "Confirm & Add" is pressed:
\* as extracted, or edited
ExtPairs == { <<7, 9>>, <<8, 9>> }

MemberKeys == { <<"a">>, <<"b">>, <<"B">> }

-----------------------------------------------------------------------------
(* Specifications *)

InitParseIdle ==
    /\ value_input = [type |-> "int", value |-> 0]
    /\ parse_result = NotCalled

InitFormatIdle ==
    /\ format_value = 0
    /\ format_result = NotFormatted

InitPowerIdle ==
    /\ power_args = [members |-> << >>, mode |-> "ATK", clan_total_power |-> 0]
    /\ power_result = NotComputed

InitFileIdle ==
    /\ backing_file = NoFile
    /\ file_call = Idle(Dict(<< >>))

\* the member pages of one clan
MemberStep ==
    \/ Tick
    \/ \E x \in CreateInputs : CreateClan(x[1], x[2])
    \/ \E pin_input \in UnlockInputs : Unlock(pin_input)
    \/ Lock
    \/ \E upload \in Uploads : UploadFile(upload)
    \/ \E upload \in Uploads, import_secret \in SecretInputs :
          ImportData(upload, import_secret)
    \/ CancelImport
    \/ \E import_mode \in ImportModes : ConfirmImport(import_mode)
    \/ CancelImportOptions
    \/ \E delete_secret \in SecretInputs : DeleteClan(delete_secret)
    \/ \E m \in ManualInputs : AddMember(m[1], m[2], m[3])
    \/ \E x \in ExtractInputs : ExtractStats(x[1], x[2], x[3])
    \/ \E ext \in ExtPairs : ConfirmAdd(ext[1], ext[2])
    \/ CancelConfirm
    \/ \E name_key \in MemberKeys : RequestDelete(name_key)
    \/ \E secret_input \in SecretInputs : ConfirmDelete(secret_input)
    \/ CancelDelete

Init == InitCalc /\ InitParseIdle /\ InitFormatIdle /\ InitPowerIdle /\ InitFileIdle /\ InitStore

Next == MemberStep

Spec == Init /\ [][Next]_vars

\* the argument of parse_stat_input
MaxLen == 3

ParseAlphabet == { "1", "4", ".", "M", "k", " ", "-" }

\* every string of at most MaxLen characters of the alphabet
ShortStrings == UNION { [1..n -> ParseAlphabet] : n \in 0..MaxLen }

NamedStrings ==
    { <<"2", "M">>,
      <<"4", ".", "1", "M">>,
      <<"5", "0", "0", "K">>,
      <<"a", "b", "c">>,
      <<"1", "5", "0", "0">>,
      <<"4", "1", "0", "0", "0", "0", "0">>,
      <<"2", ".", "5", "m">>,
      <<"1", " ", "5", "0", "0", "k">>,
      <<" ", "2", " ", "M", " ">>,
      <<"1", "M", "5">>,
      <<"M", "M">>,
      <<"i", "n", "f">>,
      <<"-", "i", "n", "f">>,
      <<"I", "n", "f", "i", "n", "i", "t", "y">>,
      <<"n", "a", "n">>,
      <<"i", "n", "f", "M">>,
      <<"n", "a", "n", "K">>,
      <<"+", "7">>,
      <<"1", ".", "2", ".", "3">>,
      <<"0", ".", "0", "7", "M">>,
      <<"2", "\t", "M">>,
      <<".", "5", "K">>,
      <<"1", "2", ".">>,
      <<"3", ".", "1", "4", "1", "5", "9", "k">>,
      <<"-", "4", ".", "1", "M">>,
      <<"9", "9", "9", ".", "9", "9", "9", "5", "K">>,
      <<"0", ".", "0", "0", "0", "1", "K">>,
      <<"0", "K">> }

\* float arguments, by their literal
FloatLiterals ==
    { <<"1", "5", "0", "0", ".", "7">>,
      <<"-", "2", ".", "5">>,
      <<"0", ".", "5">>,
      <<"n", "a", "n">>,
      <<"i", "n", "f">>,
      <<"-", "i", "n", "f">>,
      <<"1", "0", "4", "8", "5", "7", "5", ".", "9">> }

IntArguments == { 0, 1500, -3 }

ParseInputs ==
    { [type |-> "str", chars |-> chars] : chars \in ShortStrings \cup NamedStrings }
    \cup { [type |-> "float", literal |-> literal] : literal \in FloatLiterals }
    \cup { [type |-> "int", value |-> n] : n \in IntArguments }

\* parse_stat_input as a pure function: one call on any of the arguments
InitParse ==
    /\ InitCalc
    /\ InitFormatIdle
    /\ InitPowerIdle
    /\ InitFileIdle
    /\ InitStore
    /\ value_input \in ParseInputs
    /\ parse_result = NotCalled

SpecParse == InitParse /\ [][ParseCall]_vars

\* the values handed to format_stat: stats and totals of stats, around the
\* two thresholds and around the halves of the digit shown
FormatInputs ==
    (0..12) \cup (985..1060) \cup {1149, 1150, 1151, 1250, 1500, 1750, 99949, 99950}
    \cup (999940..999960) \cup (999995..1000005)
    \cup {1049999, 1050000, 1250000, 2500000, 4099999, 4100000, 999949999,
          999950000, 2000000000}

\* format_stat as a pure function: one call on any of the values
InitFormat ==
    /\ InitCalc
    /\ InitParseIdle
    /\ InitPowerIdle
    /\ InitFileIdle
    /\ InitStore
    /\ format_value \in FormatInputs
    /\ format_result = NotFormatted

SpecFormat == InitFormat /\ [][FormatCall]_vars

\* the calculator page
InitCalcPage == InitCalc /\ InitParseIdle /\ InitFormatIdle /\ InitPowerIdle /\ InitFileIdle /\ InitStore

NextCalc == CalcStep

SpecCalc == InitCalcPage /\ [][NextCalc]_vars

\* the arguments of the power formulas: every roster of at most MaxMembers
\* members, both modes, the declared totals
\* race values calculate_power has no branch for
OtherRaces == {"Bird", "cat"}

PowerMembers == [race : Races \cup OtherRaces, power : Powers]

PowerRosters == UNION { [1..n -> PowerMembers] : n \in 0..MaxMembers }

PowerArgs == [members : PowerRosters, mode : Modes, clan_total_power : TotalPowers]

\* the power formulas as pure functions: one call on any of the arguments
InitPower ==
    /\ InitCalc
    /\ InitParseIdle
    /\ InitFormatIdle
    /\ InitFileIdle
    /\ InitStore
    /\ power_args \in PowerArgs
    /\ power_result = NotComputed

SpecPower == InitPower /\ [][PowerCall]_vars

\* the files load_members finds and the documents the save functions are
\* handed
Bob == [name |-> <<"B", "o", "b">>, atk |-> 5, def |-> 5]

LegacyArrays ==
    { << >>,
      << Bob >>,
      << [name |-> << >>, atk |-> 1, def |-> 1] >>,
      << [atk |-> 1, def |-> 2] >>,
      << Bob, [atk |-> 1, def |-> 2] >>,
      << Bob, [name |-> <<"b", "o", "b">>, atk |-> 6, def |-> 6] >>,
      << Bob, [name |-> <<"A", "l">>, atk |-> 3, def |-> 4] >> }

KeyedMappings ==
    { << >>,
      (<<"b", "o", "b">> :> Bob),
      (<<"b", "o", "b">> :> Bob) @@ (<<"a", "l">> :> [name |-> <<"A", "l">>, atk |-> 3, def |-> 4]) }

FilesFound ==
    {NoFile} \cup {File(List(a)) : a \in LegacyArrays}
             \cup {File(Dict(d)) : d \in KeyedMappings}

\* one persistence call on any of the files
InitFile ==
    /\ InitCalc
    /\ InitParseIdle
    /\ InitFormatIdle
    /\ InitPowerIdle
    /\ InitStore
    /\ backing_file \in FilesFound
    /\ file_call \in {Idle(Dict(d)) : d \in KeyedMappings}

NextFile ==
    \/ load_members
    \/ \E opens \in BOOLEAN : save_open(opens)
    \/ save_write
    \/ save_close
    \/ save_fail

SpecFile == InitFile /\ [][NextFile]_vars

\* the pages of several clans: the clan management of the sidebar, and the
\* manual form
ClanStep ==
    \/ \E new_clan_name \in TwoClanNameInputs, new_clan_pin \in TwoClanPinInputs :
          CreateClan(new_clan_name, new_clan_pin)
    \/ \E clan_key \in TwoClanKeys : SelectClan(clan_key)
    \/ \E pin_input \in TwoClanUnlockInputs : Unlock(pin_input)
    \/ Lock
    \/ \E delete_secret \in SecretInputs : DeleteClan(delete_secret)
    \/ \E m \in TwoClanManualInputs : AddMember(m[1], m[2], m[3])

InitClans == InitCalc /\ InitParseIdle /\ InitFormatIdle /\ InitPowerIdle /\ InitFileIdle /\ InitStore

NextClans == ClanStep

SpecClans == InitClans /\ [][NextClans]_vars

\* clans_data.json as an earlier session left it: two clans, one with a
\* member
StoredClans ==
    (<<"x">> :> [name |-> <<"X">>, pin |-> <<"1", "2", "3", "4">>,
                 members |-> (<<"a">> :> [name |-> <<"A">>, atk |-> 5, def |-> 6,
                                          updated_at |-> 0]),
                 created_at |-> 0])
    @@ (<<"y">> :> [name |-> <<"y">>, pin |-> <<"5", "6", "7", "8", "9", "0", "1", "2">>,
                    members |-> << >>, created_at |-> 0])

\* the manual form on the pages of the stored clans
StoredManualInputs ==
    { << <<"A">>, <<"2", "M">>, << >> >>, << <<"b">>, << >>, <<"7">> >> }

\* a new session on the stored clans: "Choose Clan" shows its first option
InitStored ==
    /\ InitCalc /\ InitParseIdle /\ InitFormatIdle /\ InitPowerIdle /\ InitFileIdle
    /\ clans = StoredClans
    /\ clan_order = << <<"x">>, <<"y">> >>
    /\ now = 0
    /\ selected_clan = <<"x">>
    /\ current_clan_pin = None
    /\ authenticated_clans = {}
    /\ import_data = Absent
    /\ show_import_options = FALSE
    /\ delete_pending = Absent
    /\ show_delete_dialog = FALSE
    /\ extracted_data = Absent
    /\ extracted_name = Absent
    /\ show_confirmation = FALSE
    /\ report = ""

\* member management on the stored clans
NextStored ==
    \/ \E clan_key \in TwoClanKeys : SelectClan(clan_key)
    \/ \E pin_input \in TwoClanUnlockInputs : Unlock(pin_input)
    \/ Lock
    \/ \E m \in StoredManualInputs : AddMember(m[1], m[2], m[3])
    \/ \E upload \in Uploads, import_secret \in SecretInputs :
          ImportData(upload, import_secret)
    \/ \E import_mode \in ImportModes : ConfirmImport(import_mode)
    \/ \E name_key \in MemberKeys : RequestDelete(name_key)
    \/ \E secret_input \in SecretInputs : ConfirmDelete(secret_input)
    \/ CancelDelete

SpecStored == InitStored /\ [][NextStored]_vars

-----------------------------------------------------------------------------
(* Properties of the power formulas (specification SpecPower)              *)

\* the multiplier table of the specification (section 4.1), in tenths
SpecTable ==
    [Frog |-> ("ATK" :> 15 @@ "DEF" :> 15),
     Cat  |-> ("ATK" :> 52 @@ "DEF" :> 25),
     Dog  |-> ("ATK" :> 25 @@ "DEF" :> 52)]

\* the multiplier table of app_2.py, in tenths
RevisedTable ==
    [Frog |-> ("ATK" :> 25 @@ "DEF" :> 25),
     Cat  |-> ("ATK" :> 50 @@ "DEF" :> 25),
     Dog  |-> ("ATK" :> 25 @@ "DEF" :> 50)]

Computed == power_result.computed

\* the sum of the values of a function, in no particular order
RECURSIVE SumFn(_)
SumFn(f) ==
    IF DOMAIN f = {} THEN 0
    ELSE LET x == CHOOSE x \in DOMAIN f : TRUE
         IN  f[x] + SumFn([y \in DOMAIN f \ {x} |-> f[y]])

\* the permutations of the indices of a roster of n members
Orders == [n \in 0..MaxMembers |-> Permutations(1..n)]

\* the roster with its members rearranged by the permutation p of its indices
Rearranged(roster, p) == [i \in 1..Len(roster) |-> roster[p[i]]]

\* C1 as stated: calculate_power of both files returns, for every race,
\* mode and base power, the base power times the multiplier of the
\* specification's table (Frog 1.5; Cat 5.2 ATK, 2.5 DEF; Dog 2.5 ATK,
\* 5.2 DEF).
C1_BothFilesSpecTable ==
    Computed =>
        \A i \in 1..Len(power_args.members) :
            LET m == power_args.members[i]
            IN  m.race \in Races
                => /\ power_result.app.power[i]
                        = m.power * SpecTable[m.race][power_args.mode]
                   /\ power_result.app_2.power[i]
                        = m.power * SpecTable[m.race][power_args.mode]

\* C1 amended: calculate_power of app.py returns the base power times the
\* multiplier of the specification's table; calculate_power of app_2.py
\* returns the base power times Frog 2.5, Cat 5 (ATK) or 2.5 (DEF), Dog 2.5
\* (ATK) or 5 (DEF).
C1_PowerTables ==
    Computed =>
        \A i \in 1..Len(power_args.members) :
            LET m == power_args.members[i]
            IN  m.race \in Races
                => /\ power_result.app.power[i]
                        = m.power * SpecTable[m.race][power_args.mode]
                   /\ power_result.app_2.power[i]
                        = m.power * RevisedTable[m.race][power_args.mode]

\* calculate_power has been applied to a member of each race
C1_Witness ==
    /\ Computed
    /\ \A race \in Races :
          \E i \in DOMAIN power_result.app_2.power : power_args.members[i].race = race

\* the Lite total of the specification in ten-thousandths, given the
\* calculate_power result (tenths) of every member
SpecLiteTotal(roster, mode, clanTotalPower, effective) ==
    LET majorRace      == IF mode = "ATK" THEN "Cat" ELSE "Dog"
        major          == {i \in 1..Len(roster) : roster[i].race = majorRace}
        majorRawSum    == SumFn([i \in major |-> roster[i].power])
        majorEffective == SumFn([i \in major |-> effective[i]])
    IN  (majorEffective * 10 + (clanTotalPower - majorRawSum) * 18 * 10) * BIAS_VALUE

\* C2 as stated: the Lite total of both files is
\* (majorEffective + (clanTotalPower - majorRawSum) * 1.8) * 0.84, and mode
\* ATK, clanTotalPower 1000 and one Cat member of power 400 give 2654.4.
C2_LiteFormula ==
    Computed =>
        /\ power_result.app.lite
             = SpecLiteTotal(power_args.members, power_args.mode,
                             power_args.clan_total_power, power_result.app.power)
        /\ power_result.app_2.lite
             = SpecLiteTotal(power_args.members, power_args.mode,
                             power_args.clan_total_power, power_result.app_2.power)
        /\ power_args = [members |-> << [race |-> "Cat", power |-> 400] >>,
                         mode |-> "ATK", clan_total_power |-> 1000]
           => /\ power_result.app.lite = 26544000
              /\ power_result.app_2.lite = 26544000

C20_IdentityFallback ==
    Computed =>
        \A i \in 1..Len(power_args.members) :
            power_args.members[i].race \notin Races
            => /\ power_result.app.power[i] = power_args.members[i].power * 10
               /\ power_result.app_2.power[i] = power_args.members[i].power * 10

\* calculate_power has been applied to a member of an unknown race and to
\* one whose race is "cat" in lower case
C20_Witness ==
    /\ Computed
    /\ \A race \in OtherRaces :
          \E i \in DOMAIN power_result.app.power : power_args.members[i].race = race

-----------------------------------------------------------------------------
(* Properties of parse_stat_input (specification SpecParse) *)

Called == parse_result # NotCalled

StrInput(chars) == [type |-> "str", chars |-> chars]

HasDigit(chars) == \E i \in 1..Len(chars) : chars[i] \in Digits

\* C4 as stated: parse_stat_input never raises, whatever the input (a
\* number, the empty string, text that is not a number, 'nan', 'inf'), and
\* returns 0 for a string that holds no number.
C4_NeverRaises ==
    Called =>
        /\ parse_result.raised = "none"
        /\ (value_input.type = "str" /\ ~HasDigit(value_input.chars))
              => parse_result.value = 0

\* C5 as stated: a numeric input comes back truncated to an integer, and
\* "2M" gives 2000000, "4.1M" gives 4100000, "500K" gives 500000, "abc"
\* gives 0 and 1500 gives 1500.
C5_ParseExamples ==
    Called =>
        /\ value_input.type = "int" => parse_result.value = value_input.value
        /\ value_input = StrInput(<<"2", "M">>) => parse_result.value = 2000000
        /\ value_input = StrInput(<<"4", ".", "1", "M">>) => parse_result.value = 4100000
        /\ value_input = StrInput(<<"5", "0", "0", "K">>) => parse_result.value = 500000
        /\ value_input = StrInput(<<"a", "b", "c">>) => parse_result.value = 0
        /\ value_input = [type |-> "int", value |-> 1500] => parse_result.value = 1500

-----------------------------------------------------------------------------
(* Properties of the member store (specification Spec) *)

\* the step wrote record under name_key of the current clan, left every
\* other entry alone, and reported "Updated" or "Added"
Upserted(name_key, record, existed) ==
    /\ DOMAIN members' = DOMAIN members \cup {name_key}
    /\ members'[name_key] = record
    /\ \A k \in DOMAIN members \ {name_key} : members'[k] = members[k]
    /\ report' = IF existed THEN "success: Updated" ELSE "success: Added"

\* the manual form: an accepted "Add Member" is an upsert under the
\* trimmed, lowercased name
ManualUpsert ==
    \A m \in ManualInputs :
        ( /\ AddMember(m[1], m[2], m[3])
          /\ Strip(m[1]) # << >>
          /\ StatOf(m[2]).raised = "none"
          /\ StatOf(m[3]).raised = "none" )
        => Upserted(Lower(Strip(m[1])),
                    [name |-> Strip(m[1]), atk |-> StatOf(m[2]).value,
                     def |-> StatOf(m[3]).value, updated_at |-> now],
                    Lower(Strip(m[1])) \in DOMAIN members)

\* the image path: "Confirm & Add" is an upsert under the trimmed,
\* lowercased name
ImageUpsert ==
    \A ext \in ExtPairs :
        ConfirmAdd(ext[1], ext[2])
        => /\ Strip(extracted_name.value) = extracted_name.value
           /\ Upserted(Lower(extracted_name.value),
                       [name |-> extracted_name.value, atk |-> ext[1],
                        def |-> ext[2], updated_at |-> now],
                       Lower(extracted_name.value) \in DOMAIN members)

\* C6 as stated: an upsert (manual form or Confirm & Add) is keyed by the
\* trimmed, lowercased name; the clan then holds one entry under that key,
\* the complete record of this upsert (trimmed original-case name, atk, def,
\* fresh updated_at), every other entry is as before, and the action
\* reports 'updated' exactly when the key existed before.
C6_UpsertByKey == [][ManualUpsert /\ ImageUpsert]_vars

\* C7 as stated: in every reachable store every member key equals the
\* lowercased trimmed display name of its entry.
C7_KeysNormalised ==
    \A c \in DOMAIN clans : \A k \in DOMAIN clans[c].members :
        k = Lower(Strip(clans[c].members[k].name))

\* C8: "Confirm Import" in Replace mode leaves exactly the incoming
\* mapping; in Merge mode it leaves the old entries whose key is not in the
\* incoming mapping unchanged and, under every incoming key, the incoming
\* value whole.
C8_ImportModes ==
    [][\A import_mode \in ImportModes :
          (ConfirmImport(import_mode) /\ import_data.present)
          => LET old == members
                 incoming == import_data.value
             IN  IF import_mode = "Replace (overwrite all members)"
                 THEN members' = incoming
                 ELSE /\ DOMAIN members' = DOMAIN old \cup DOMAIN incoming
                      /\ \A k \in DOMAIN incoming : members'[k] = incoming[k]
                      /\ \A k \in DOMAIN old \ DOMAIN incoming : members'[k] = old[k]]_vars

\* a Merge import has just overwritten "a" with the incoming entry (which
\* has no timestamp) and kept "b"
C8_Witness ==
    /\ ClanShown
    /\ report = "exception: AttributeError: import_data"
    /\ import_data = Absent
    /\ <<"a">> \in DOMAIN members
    /\ members[<<"a">>] = PayloadNormal[<<"a">>]
    /\ <<"b">> \in DOMAIN members

\* C9: "Confirm Delete" with a secret other than the configured one
\* reports an error and leaves the stored clans unchanged; with the
\* configured secret the clan has one member fewer, the pending key is
\* gone and every other member is as before.
C9_DeleteGate ==
    [][\A secret_input \in SecretInputs :
          ConfirmDelete(secret_input)
          => IF secret_input # SECRET_KEY
             THEN /\ report' = "error: Invalid secret key!"
                  /\ UNCHANGED fileVars
             ELSE /\ Cardinality(DOMAIN members') = Cardinality(DOMAIN members) - 1
                  /\ delete_pending.value \notin DOMAIN members'
                  /\ \A k \in DOMAIN members \ {delete_pending.value} :
                        k \in DOMAIN members' /\ members'[k] = members[k]]_vars

\* a member has just been deleted and another one is still there
C9_Witness ==
    /\ ClanShown
    /\ report = "success: Deleted"
    /\ delete_pending = Absent
    /\ DOMAIN members # {}

\* a clan of the file is gone after the step
ClanRemoved == \E c \in DOMAIN clans : c \notin DOMAIN clans'

\* a member of a clan that stays is gone after the step
MemberRemoved ==
    \E c \in DOMAIN clans \cap DOMAIN clans' :
        \E k \in DOMAIN clans[c].members : k \notin DOMAIN clans'[c].members

\* C10: a clan is removed only by "Confirm Delete Clan" with the
\* configured secret; a member is removed only by "Confirm Delete" with the
\* configured secret or by an import; an import is applied only from the
\* import options, which only "Import Data" with the configured secret
\* opens; and each of the three with another secret reports an error and
\* changes neither the file nor the session.
C10_SecretGate ==
    [][/\ ClanRemoved => DeleteClan(SECRET_KEY)
       /\ MemberRemoved
            => \/ ConfirmDelete(SECRET_KEY)
               \/ show_import_options /\ \E import_mode \in ImportModes :
                                            ConfirmImport(import_mode)
       /\ (\E import_mode \in ImportModes : ConfirmImport(import_mode))
            => show_import_options
       /\ (show_import_options' /\ ~show_import_options)
            => \E upload \in Uploads : ImportData(upload, SECRET_KEY)
       /\ \A secret \in SecretInputs \ {SECRET_KEY} :
            ( \/ DeleteClan(secret)
              \/ ConfirmDelete(secret)
              \/ \E upload \in Uploads : ImportData(upload, secret) )
            => /\ report' = "error: Invalid secret key!"
               /\ UNCHANGED << fileVars, sessionVars >>]_vars

\* a Replace import has just left exactly the incoming mapping
C10_Witness ==
    /\ ClanShown
    /\ report = "exception: AttributeError: import_data"
    /\ members = PayloadRawKey

\* the manual inputs by their name: empty after trimming, or not
BlankManualInputs == {m \in ManualInputs : Strip(m[1]) = << >>}
NamedManualInputs == ManualInputs \ BlankManualInputs
BlankExtractInputs == { << <<" ">>, TRUE, Absent >> }

\* the key "Add Member" stores an input under
ManualKey == [m \in ManualInputs |-> Lower(Strip(m[1]))]

\* C11: "Add Member" and "Extract Stats from Image" with a name that is
\* empty after trimming report "Please enter a name" and change neither the
\* clans file nor the session; an accepted "Add Member" whose ATK (DEF)
\* field was left empty stores atk (def) 0.
C11_EmptyNameRejected ==
    [][/\ \A m \in BlankManualInputs :
             AddMember(m[1], m[2], m[3])
             => /\ report' = "error: Please enter a name"
                /\ UNCHANGED << fileVars, sessionVars >>
       /\ \A m \in NamedManualInputs :
             ( /\ report' \in {"success: Added", "success: Updated"}
               /\ AddMember(m[1], m[2], m[3]) )
             => /\ m[2] = << >> => members'[ManualKey[m]].atk = 0
                /\ m[3] = << >> => members'[ManualKey[m]].def = 0
       /\ \A x \in BlankExtractInputs :
             ExtractStats(x[1], x[2], x[3])
             => /\ report' = "error: Please enter a name"
                /\ UNCHANGED << fileVars, sessionVars >>]_vars

\* the validation error is on the page of a clan that has a member stored
\* with atk 0 and one stored with def 0
C11_Witness ==
    /\ ClanShown
    /\ report = "error: Please enter a name"
    /\ \E k \in DOMAIN members : members[k].atk = 0 /\ members[k].def = 500000
    /\ \E k \in DOMAIN members : members[k].def = 0 /\ members[k].atk = 2000000

\* the clicks on "Extract Stats from Image" whose extraction call fails:
\* it returns None (transport error, response that is not JSON), or a
\* document the confirmation cannot read
FailedExtractInputs ==
    { << <<"A", " ">>, TRUE, Absent >>,
      << <<"A", " ">>, TRUE, Some(List(<< 7, 9 >>)) >> }

\* C13 as stated: when the extraction call fails, "Extract Stats from
\* Image" reports the failure, leaves the clans file unchanged, and the
\* page still renders afterwards, so that every action stays available.
C13_ExtractionFailure ==
    [][\A x \in FailedExtractInputs :
          ExtractStats(x[1], x[2], x[3])
          => /\ report' = "error: Error processing image with Gemini"
             /\ UNCHANGED fileVars
             /\ ConfirmationRenders']_vars

\* a member entry that holds what the extraction gave (def 9, which no
\* manual input and no uploaded file of the model carries) is new in the
\* store
ExtractedValueStored ==
    \E c \in DOMAIN clans' : \E k \in DOMAIN clans'[c].members :
        /\ clans'[c].members[k].def = 9
        /\ ~(c \in DOMAIN clans /\ k \in DOMAIN clans[c].members
               /\ clans[c].members[k] = clans'[c].members[k])

\* C14: a step that changes the clans file is neither an "Extract Stats
\* from Image" nor a "Cancel" under the extracted stats, and if it puts an
\* entry with extracted values into the file it is a "Confirm & Add", taken
\* while a confirmation is shown; and "Cancel" drops the extracted values.
C14_ExtractionNeverWrites ==
    [][/\ UNCHANGED fileVars
          \/ /\ \A x \in ExtractInputs : ~ExtractStats(x[1], x[2], x[3])
             /\ ~CancelConfirm
             /\ ExtractedValueStored
                   => show_confirmation /\ \E ext \in ExtPairs : ConfirmAdd(ext[1], ext[2])
       /\ CancelConfirm
             => /\ ~show_confirmation'
                /\ extracted_data' = Absent
                /\ extracted_name' = Absent]_vars

\* an extraction is waiting for its confirmation while the store holds the
\* entry an earlier "Confirm & Add" wrote with an edited value
C14_Witness ==
    /\ ClanShown
    /\ show_confirmation
    /\ extracted_data = Some(Dict([atk |-> 7, def |-> 9]))
    /\ report = "success: Stats extracted successfully!"
    /\ <<"a">> \in DOMAIN members
    /\ members[<<"a">>].atk = 8
    /\ members[<<"a">>].def = 9

\* the uploads that are not a JSON object
RejectedUploads == {u \in Uploads : u.kind # "dict"}

\* what such a file carries is neither staged nor stored
NothingOfRejected ==
    /\ \A c \in DOMAIN clans : \A k \in DOMAIN clans[c].members :
          /\ clans[c].members[k].def # 99
          /\ clans[c].members[k].name # <<"Z">>
    /\ import_data.present
          => \A k \in DOMAIN import_data.value : import_data.value[k].def # 99

\* C18: an uploaded file whose JSON value is not an object is answered
\* with "Invalid format!", offers no "Import Data" and changes neither the
\* file nor the session; and what it carries is never staged or stored.
C18_NonObjectRejected ==
    /\ []NothingOfRejected
    /\ [][\A upload \in RejectedUploads :
             /\ UploadFile(upload)
                  => /\ report' = "error: Invalid format! JSON must be an object/dictionary."
                     /\ UNCHANGED << fileVars, sessionVars >>
             /\ \A import_secret \in SecretInputs : ~ImportData(upload, import_secret)]_vars

\* a file that is not an object has just been rejected while an import
\* staged before it is still offered
C18_Witness ==
    /\ ClanShown
    /\ report = "error: Invalid format! JSON must be an object/dictionary."
    /\ show_import_options
    /\ import_data.present

\* C19 as stated: in every reachable store the atk and the def of every
\* member entry of every clan are non-negative.
C19_StatsNonNegative ==
    \A c \in DOMAIN clans : \A k \in DOMAIN clans[c].members :
        /\ clans[c].members[k].atk >= 0
        /\ clans[c].members[k].def >= 0

-----------------------------------------------------------------------------
(* Properties of the clan management (specification SpecClans) *)

\* a string of 4 to 8 digits
IsPin(pin) == Len(pin) \in 4..8 /\ \A i \in 1..Len(pin) : pin[i] \in Digits

\* the clans that are persisted have a 4-8 digit PIN, and no two of their
\* keys are the same name in another case
PersistedClansValid ==
    /\ \A c \in DOMAIN clans : IsPin(clans[c].pin)
    /\ \A c, d \in DOMAIN clans : Lower(c) = Lower(d) => c = d
    /\ \A c \in DOMAIN clans : c = Lower(Strip(clans[c].name))

\* C16: "Create Clan" with a name that is not empty after trimming, a PIN
\* of 4 to 8 digits and a lowercased trimmed name no clan has adds that clan
\* (trimmed name, the PIN, no members) and leaves the other clans as they
\* were; any other "Create Clan" reports an error and changes neither the
\* file nor the session; no other action adds a clan; and every persisted
\* clan has a 4-8 digit PIN and a key that is unique case-insensitively.
C16_CreateClanValidated ==
    /\ []PersistedClansValid
    /\ [][/\ \A new_clan_name \in TwoClanNameInputs, new_clan_pin \in TwoClanPinInputs :
               CreateClan(new_clan_name, new_clan_pin)
               => LET clan_key == Lower(Strip(new_clan_name))
                  IN  IF /\ Strip(new_clan_name) # << >>
                         /\ IsPin(new_clan_pin)
                         /\ clan_key \notin DOMAIN clans
                      THEN /\ DOMAIN clans' = DOMAIN clans \cup {clan_key}
                           /\ clans'[clan_key].name = Strip(new_clan_name)
                           /\ clans'[clan_key].pin = new_clan_pin
                           /\ clans'[clan_key].members = << >>
                           /\ \A c \in DOMAIN clans : clans'[c] = clans[c]
                      ELSE /\ report' \in { "error: Please enter a clan name",
                                            "error: Please enter a PIN code",
                                            "error: PIN must be 4-8 digits",
                                            "error: PIN must contain only numbers",
                                            "error: Clan name already exists!" }
                           /\ UNCHANGED << fileVars, sessionVars >>
          /\ ~(DOMAIN clans' \subseteq DOMAIN clans)
               => \E new_clan_name \in TwoClanNameInputs, new_clan_pin \in TwoClanPinInputs :
                     CreateClan(new_clan_name, new_clan_pin)]_vars

\* two clans are persisted and creating the first one again, in another
\* case, has just been refused
C16_Witness ==
    /\ DOMAIN clans = { <<"x">>, <<"y">> }
    /\ clans[<<"x">>].name = <<"X">>
    /\ report = "error: Clan name already exists!"

\* C17: the set of unlocked clans grows only in an "Unlock" step whose PIN
\* is the stored PIN of the selected clan, and then by that clan alone; an
\* "Unlock" with any other PIN reports "Incorrect PIN!" and changes neither
\* the unlocked clans, the current clan nor the file.
C17_UnlockByPin ==
    [][/\ ~(authenticated_clans' \subseteq authenticated_clans)
            => /\ selected_clan # None
               /\ Unlock(clans[selected_clan].pin)
               /\ authenticated_clans' = authenticated_clans \cup {selected_clan}
       /\ \A pin_input \in TwoClanUnlockInputs :
            (Unlock(pin_input) /\ pin_input # clans[selected_clan].pin)
            => /\ report' = "error: Incorrect PIN!"
               /\ UNCHANGED << authenticated_clans, current_clan_pin, fileVars >>]_vars

\* the second clan has just been unlocked, with its own PIN, next to the
\* first one
C17_Witness ==
    /\ authenticated_clans = { <<"x">>, <<"y">> }
    /\ clans[<<"x">>].pin # clans[<<"y">>].pin
    /\ current_clan_pin = selected_clan
    /\ report = "success: Unlocked"

-----------------------------------------------------------------------------
(* Properties of the persistence calls (specification SpecFile) *)

\* load_members has returned from a file that held a legacy array
LegacyLoaded ==
    /\ file_call.state = "loaded"
    /\ file_call.before.exists
    /\ file_call.before.doc.type = "list"

\* the result is the array's named members under their lowercased names
MigratedResult ==
    LET data  == file_call.before.doc.items
        named == {i \in 1..Len(data) : "name" \in DOMAIN data[i] /\ data[i].name # << >>}
    IN  /\ DOMAIN file_call.result = {Lower(data[i].name) : i \in named}
        /\ \A k \in DOMAIN file_call.result :
              \E i \in named : Lower(data[i].name) = k /\ file_call.result[k] = data[i]

\* C12 as stated: load_members on a legacy array returns the mapping of
\* the members that have a non-empty name, keyed by the lowercased name,
\* and leaves the file holding that mapping in the keyed form, for every
\* legacy array (the empty one and one whose entries are all skipped
\* included).
C12_LegacyMigration ==
    LegacyLoaded => /\ MigratedResult
                    /\ backing_file = File(Dict(file_call.result))

\* C15 as stated: when save_clans or save_members has failed, at whatever
\* point of the write, the file on disk is what it was before the call.
C15_AllOrNothingWrite ==
    file_call.state = "failed" => backing_file = file_call.before

-----------------------------------------------------------------------------
(* Properties of format_stat (specification SpecFormat)                    *)

Formatted == format_result.formatted

\* the texts that show value / unit with one decimal and the suffix: the
\* number of tenths is a nearest one (either one when value / unit lies
\* halfway between two)
OneDecimalTexts(value, unit, suffix) ==
    { NatDigits(t \div 10) \o << "." >> \o << DigitChar(t % 10) >> \o << suffix >> :
        t \in { u \in (value \div (unit \div 10))..(value \div (unit \div 10) + 1) :
                  /\ 2 * (value - u * (unit \div 10)) <= unit \div 10
                  /\ 2 * (u * (unit \div 10) - value) <= unit \div 10 } }

\* C21: format_stat of a non-negative integer is value/1,000,000 with one
\* decimal and "M" from 1,000,000 on, value/1,000 with one decimal and "K"
\* from 1,000 to 999,999, and the plain integer below 1,000; 2500000 gives
\* "2.5M", 1500 gives "1.5K", 999 gives "999".
C21_FormatStat ==
    Formatted =>
        /\ format_value >= 1000000
              => format_result.text \in OneDecimalTexts(format_value, 1000000, "M")
        /\ format_value >= 1000 /\ format_value < 1000000
              => format_result.text \in OneDecimalTexts(format_value, 1000, "K")
        /\ format_value < 1000 => format_result.text = NatDigits(format_value)
        /\ format_value = 2500000 => format_result.text = << "2", ".", "5", "M" >>
        /\ format_value = 1500 => format_result.text = << "1", ".", "5", "K" >>
        /\ format_value = 999 => format_result.text = << "9", "9", "9" >>

C21_Witness ==
    /\ Formatted
    /\ format_value = 2500000
    /\ format_result.text = << "2", ".", "5", "M" >>

-----------------------------------------------------------------------------
(* Properties of the calculator page (specification SpecCalc)              *)

\* C22: in every reachable state the two rosters are in complementary
\* modes: roster 2 is DEF exactly when roster 1 is ATK.
C22_ComplementaryModes ==
    /\ clan1_mode \in Modes
    /\ clan2_mode \in Modes
    /\ clan2_mode = "DEF" <=> clan1_mode = "ATK"

C22_Witness ==
    /\ clan1_mode = "DEF"
    /\ clan2_mode = "ATK"
    /\ calc_mode = "Lite"
    /\ Len(clan1_members) > 0
    /\ Len(clan2_members) > 0

MajorRace(mode) == IF mode = "ATK" THEN "Cat" ELSE "Dog"

\* C23: a member added to a roster while the calculator is in Lite mode has
\* the major race of that roster's mode at the time of the add: Cat when
\* the roster is ATK, Dog when it is DEF.
C23_LiteAddsMajorRace ==
    [][calc_mode = "Lite" =>
          /\ Len(clan1_members') > Len(clan1_members)
                => clan1_members'[Len(clan1_members')].race = MajorRace(clan1_mode)
          /\ Len(clan2_members') > Len(clan2_members)
                => clan2_members'[Len(clan2_members')].race = MajorRace(clan2_mode)]_vars

C23_Witness ==
    /\ calc_mode = "Lite"
    /\ clan1_mode = "DEF"
    /\ clan1_members = << [race |-> "Dog", power |-> 3] >>
    /\ clan2_members = << [race |-> "Cat", power |-> 400] >>

FullMember(x) == [race |-> x[1], power |-> x[2], level |-> x[3]]

\* new is old with one member more, at the end
Appended(old, new) ==
    /\ Len(new) = Len(old) + 1
    /\ \A j \in 1..Len(old) : new[j] = old[j]

\* new is old without the member at idx, the others in their order
Removed(old, new, idx) ==
    /\ Len(new) = Len(old) - 1
    /\ \A j \in 1..(idx - 1) : new[j] = old[j]
    /\ \A j \in idx..Len(new) : new[j] = old[j + 1]

\* new is old but for the member at idx
Replaced(old, new, idx) ==
    /\ Len(new) = Len(old)
    /\ \A j \in 1..Len(old) : j # idx => new[j] = old[j]

\* C24: roster operations are positional and order-preserving: add appends
\* at the end, delete at index i removes exactly the member at index i and
\* keeps the others in their order, edit at index i changes only the member
\* at index i, clear empties only that roster; no operation on one roster
\* changes the other roster.
C24_PositionalRosters ==
    [][/\ \A x \in CalcFullInputs :
             /\ AddFull1(x[1], x[2], x[3])
                   => /\ Appended(clan1_members, clan1_members')
                      /\ clan1_members'[Len(clan1_members')] = FullMember(x)
                      /\ UNCHANGED clan2_members
             /\ AddFull2(x[1], x[2], x[3])
                   => /\ Appended(clan2_members, clan2_members')
                      /\ clan2_members'[Len(clan2_members')] = FullMember(x)
                      /\ UNCHANGED clan1_members
       /\ \A power \in Powers :
             /\ AddLite1(power)
                   => /\ Appended(clan1_members, clan1_members')
                      /\ clan1_members'[Len(clan1_members')].power = power
                      /\ UNCHANGED clan2_members
             /\ AddLite2(power)
                   => /\ Appended(clan2_members, clan2_members')
                      /\ clan2_members'[Len(clan2_members')].power = power
                      /\ UNCHANGED clan1_members
       /\ \A idx \in 1..MaxMembers :
             /\ Delete1(idx)
                   => /\ Removed(clan1_members, clan1_members', idx)
                      /\ UNCHANGED clan2_members
             /\ Delete2(idx)
                   => /\ Removed(clan2_members, clan2_members', idx)
                      /\ UNCHANGED clan1_members
             /\ \A x \in CalcFullInputs :
                   /\ EditFull1(idx, x[1], x[2], x[3])
                         => /\ Replaced(clan1_members, clan1_members', idx)
                            /\ clan1_members'[idx] = FullMember(x)
                            /\ UNCHANGED clan2_members
                   /\ EditFull2(idx, x[1], x[2], x[3])
                         => /\ Replaced(clan2_members, clan2_members', idx)
                            /\ clan2_members'[idx] = FullMember(x)
                            /\ UNCHANGED clan1_members
             /\ \A power \in Powers :
                   /\ EditLite1(idx, power)
                         => /\ Replaced(clan1_members, clan1_members', idx)
                            /\ clan1_members'[idx].power = power
                            /\ UNCHANGED clan2_members
                   /\ EditLite2(idx, power)
                         => /\ Replaced(clan2_members, clan2_members', idx)
                            /\ clan2_members'[idx].power = power
                            /\ UNCHANGED clan1_members
       /\ Clear1 => clan1_members' = << >> /\ UNCHANGED clan2_members
       /\ Clear2 => clan2_members' = << >> /\ UNCHANGED clan1_members]_vars

\* a member was deleted from the middle of a roster of three
C24_Witness ==
    /\ Len(clan1_members) = MaxMembers - 1
    /\ clan1_members[1].race = "Dog"
    /\ clan1_members[MaxMembers - 1].race = "Frog"
    /\ clan1_members[1].power = 400
    /\ clan2_members = << >>

\* C29 as stated: every roster entry carries every field the table of the
\* current calc mode reads: race and power, and level in Full mode.
C29_RostersRenderable ==
    \A members_ \in {clan1_members, clan2_members} :
        \A i \in 1..Len(members_) :
            /\ {"race", "power"} \subseteq DOMAIN members_[i]
            /\ calc_mode = "Full" => HasLevel(members_[i])

-----------------------------------------------------------------------------
(* Properties of the delete dialog and of the current clan                 *)

\* C27 as stated: whenever the delete-confirmation dialog is shown
\* (show_delete_dialog is set and the current clan has members),
\* delete_pending is a key of the current clan's members.
C27_DialogKeyPresent ==
    (ClanShown /\ show_delete_dialog /\ DOMAIN members # {})
        => /\ delete_pending.present
           /\ delete_pending.value \in DOMAIN members

\* the clans whose members mapping the step changes
MembersChanged(k) ==
    /\ k \in DOMAIN clans
    /\ k \in DOMAIN clans'
    /\ clans'[k].members # clans[k].members

\* C25: the current clan is none, or a clan of the store that is in the
\* session's set of unlocked clans; a step that changes the members of a
\* clan changes those of a clan unlocked in the session.
C25_CurrentClanUnlocked ==
    /\ [](current_clan_pin # None
            => /\ current_clan_pin \in DOMAIN clans
               /\ current_clan_pin \in authenticated_clans)
    /\ [][\A k \in TwoClanKeys : MembersChanged(k) => k \in authenticated_clans]_vars

\* one clan unlocked, current and with a member, the other one locked
C25_Witness ==
    /\ DOMAIN clans = TwoClanKeys
    /\ current_clan_pin = <<"y">>
    /\ selected_clan = <<"y">>
    /\ authenticated_clans = { <<"y">> }
    /\ DOMAIN clans[<<"y">>].members # {}
    /\ report = "success: Added"

\* C26 as stated: a step that changes the members of a clan changes those
\* of the clan selected in "Choose Clan".
C26_MutatesSelectedClan ==
    [][\A k \in TwoClanKeys : MembersChanged(k) => k = selected_clan]_vars

\* the step leaves the store as it is but for the members of the current
\* clan
OnlyCurrentMembers ==
    /\ DOMAIN clans' = DOMAIN clans
    /\ clan_order' = clan_order
    /\ \A k \in DOMAIN clans :
          /\ k # current_clan_pin => clans'[k] = clans[k]
          /\ DOMAIN clans'[k] = DOMAIN clans[k]
          /\ clans'[k].name = clans[k].name
          /\ clans'[k].pin = clans[k].pin
          /\ clans'[k].created_at = clans[k].created_at

\* C30: a member upsert, member delete or import on the current clan
\* changes only that clan's members mapping: its name, pin and created_at
\* and every other clan's record are the same in the store before and after.
C30_MemberOpsFrame ==
    [][( \/ \E m \in StoredManualInputs : AddMember(m[1], m[2], m[3])
         \/ \E secret_input \in SecretInputs : ConfirmDelete(secret_input)
         \/ \E import_mode \in ImportModes : ConfirmImport(import_mode) )
          => OnlyCurrentMembers]_vars

\* the first clan lost its member, the second one received two, by the
\* form and by an import
C30_Witness ==
    /\ clans[<<"x">>].members = << >>
    /\ DOMAIN clans[<<"y">>].members = { <<"a">>, <<"b">> }
    /\ clans[<<"y">>].members[<<"a">>] = PayloadNormal[<<"a">>]
    /\ clans[<<"x">>].pin = StoredClans[<<"x">>].pin
    /\ clans[<<"y">>].pin = StoredClans[<<"y">>].pin

\* C28 as stated: "Confirm Import" (Merge or Replace) completes without
\* error: the current clan's members are updated and persisted, the staging
\* state is cleared, and a success message with the number of imported
\* members is reported.
C28_ConfirmImportCompletes ==
    [][\A import_mode \in ImportModes :
          (import_data.present /\ ConfirmImport(import_mode))
          => /\ clans'[current_clan_pin].members
                  = IF import_mode = "Replace (overwrite all members)"
                    THEN import_data.value
                    ELSE Update(members, import_data.value)
             /\ ~show_import_options'
             /\ import_data' = Absent
             /\ report' = "success: Data imported successfully!"]_vars

=============================================================================
